---- MODULE Spec2Model ----
(***************************************************************************)
(* Verification model of go-datatrails-logverification: the list           *)
(* reconciler (VerifyList / VerifyAppEntryInList), single entry inclusion   *)
(* (AppEntry.Proof / VerifyProof / VerifyInclusion) and log state           *)
(* consistency (VerifyConsistency), over the MMR address algebra and the    *)
(* massif window of the go-datatrails-merklelog dependency.                 *)
(*                                                                         *)
(* SHA-256 is modelled as an injective constructor: a hash value is the     *)
(* tuple of what was written to the hasher, so two hashes are equal exactly *)
(* when their pre-images are equal (collision freedom).                     *)
(***************************************************************************)
EXTENDS Integers, Sequences, FiniteSets, TLC

\* ------------------------------------------------------------------------
\* Bounds of the model
\* ------------------------------------------------------------------------

\* largest number of leaves the modelled log holds
MaxLeaves == 5

\* longest list of app entries handed to VerifyList
MaxEntries == 3

\* massif height used for every massif lookup. The program's default is far
\* larger; the model scales it so that a small log spans several massifs.
\* A massif of height h holds 2^(h-1) leaves.
DefaultMassifHeight == 2

\* ------------------------------------------------------------------------
\* Program constants
\* ------------------------------------------------------------------------

MMRSaltSize == 32

ExtraBytesSize == 24

IDTimestapSizeBytes == 8

\* the time a massif fetch may take, in seconds
contextTimeout == 30

\* ------------------------------------------------------------------------
\* Integer helpers
\* ------------------------------------------------------------------------

RECURSIVE Pow2(_)
Pow2(n) == IF n = 0 THEN 1 ELSE 2 * Pow2(n - 1)

\* bits.Len64: the number of bits needed to represent n (0 for n = 0)
RECURSIVE BitLength64(_)
BitLength64(n) == IF n = 0 THEN 0 ELSE 1 + BitLength64(n \div 2)

\* true when every bit of n up to its most significant one is set
AllOnes(n) == n + 1 = Pow2(BitLength64(n))

\* ------------------------------------------------------------------------
\* MMR address algebra (package mmr of go-datatrails-merklelog)
\* ------------------------------------------------------------------------

\* mmr.PosHeight: height of the node at 1-based position pos; jump to the
\* left most node of the same height until the position is all ones.
RECURSIVE PosHeight(_)
PosHeight(pos) ==
    IF AllOnes(pos) THEN BitLength64(pos) - 1
    ELSE PosHeight(pos - (Pow2(BitLength64(pos) - 1) - 1))

\* mmr.IndexHeight: height of the node at 0-based mmr index i
IndexHeight(i) == PosHeight(i + 1)

\* mmr.MMRIndex (mmr.TreeIndex in the older library): leaf index -> mmr index
RECURSIVE MMRIndex(_)
MMRIndex(leafIndex) ==
    IF leafIndex = 0 THEN 0
    ELSE LET h == BitLength64(leafIndex)
         IN  (Pow2(h) - 1) + MMRIndex(leafIndex - Pow2(h - 1))

\* mmr.PeaksBitmap: greedy decomposition of size into perfect peaks, largest
\* first, at most one peak of every height; bit h set = a peak of height h.
RECURSIVE PeaksBitmapLoop(_, _, _)
PeaksBitmapLoop(pos, peakSize, peakMap) ==
    IF peakSize = 0 THEN peakMap
    ELSE IF pos >= peakSize
         THEN PeaksBitmapLoop(pos - peakSize, peakSize \div 2, 2 * peakMap + 1)
         ELSE PeaksBitmapLoop(pos, peakSize \div 2, 2 * peakMap)

PeaksBitmap(mmrSize) ==
    IF mmrSize = 0 THEN 0
    ELSE PeaksBitmapLoop(mmrSize, Pow2(BitLength64(mmrSize)) - 1, 0)

\* mmr.LeafCount: the number of leaves of the largest valid mmr whose size is
\* at most the given size
LeafCount(size) == PeaksBitmap(size)

\* size of the mmr that holds exactly n leaves: the index the next leaf gets
\* ("mmrIndex is equal to the count of all nodes")
MMRSizeOfLeaves(n) == MMRIndex(n)

\* mmr.FirstMMRSize: the size of the first complete mmr that contains index i
RECURSIVE FirstMMRSize(_)
FirstMMRSize(i) ==
    IF IndexHeight(i + 1) > IndexHeight(i) THEN FirstMMRSize(i + 1) ELSE i + 1

\* mmr.LeafIndex: the leaf index of the leaf at mmr index i (for an interior
\* node, of the last leaf below it)
LeafIndex(i) == LeafCount(FirstMMRSize(i)) - 1

\* mmr.Peaks: the 0-based indices of the peaks of the mmr whose last node is
\* mmrIndex, highest peak first; empty when mmrIndex + 1 is no valid size.
RECURSIVE PeaksLoop(_, _)
PeaksLoop(mmrSize, peak) ==
    IF mmrSize = 0 THEN <<>>
    ELSE LET peakSize == Pow2(BitLength64(mmrSize + 1) - 1) - 1
         IN  <<peak + peakSize - 1>> \o PeaksLoop(mmrSize - peakSize, peak + peakSize)

Peaks(mmrIndex) ==
    IF PosHeight(mmrIndex + 2) > PosHeight(mmrIndex + 1) THEN <<>>
    ELSE PeaksLoop(mmrIndex + 1, 0)

\* mmr.PeakIndex: place, in the accumulator of an mmr with leafCount leaves, of
\* the peak that a proof of length d from a leaf reproduces
RECURSIVE OnesCount64(_)
OnesCount64(n) == IF n = 0 THEN 0 ELSE (n % 2) + OnesCount64(n \div 2)

PeakIndex(leafCount, d) ==
    OnesCount64(leafCount) - OnesCount64(leafCount % Pow2(d + 1))

\* ------------------------------------------------------------------------
\* Errors and results. A result is [err |-> <error>, v |-> <value>].
\* ------------------------------------------------------------------------

NoErr == "nil"

\* a nil pointer, an unset option, a variable the operation at hand does not use
None == <<>>

Ok(v) == [err |-> NoErr, v |-> v]

Fail(e) == [err |-> e, v |-> <<>>]

ErrIntermediateNode == "ErrIntermediateNode"
ErrDuplicateAppEntryMMRIndex == "ErrDuplicateAppEntryMMRIndex"
ErrAppEntryNotOnLeaf == "ErrAppEntryNotOnLeaf"
ErrInclusionProofVerify == "ErrInclusionProofVerify"
ErrNotEnoughAppEntriesInList == "ErrNotEnoughAppEntriesInList"
ErrVerifyInclusionFailed == "ErrVerifyInclusionFailed"
ErrConsistencyCheck == "ErrConsistencyCheck"
ErrBlobNotFound == "ErrBlobNotFound"
ErrGetIndex == "ErrGetIndex"
ErrIDTimestampBytes == "ErrIDTimestampBytes"
ErrPeaksNotSet == "ErrPeaksNotSet"

\* the run time panic of an index beyond the end of a slice
ErrIndexOutOfRange == "panic: index out of range"

\* ------------------------------------------------------------------------
\* Hashing
\* ------------------------------------------------------------------------

\* sha256 over the bytes written for a leaf: domain | mmr salt | serialized bytes
HashLeaf(bytes) == <<"sha256", "leaf", bytes>>

\* mmr.HashPosPair64: sha256 over pos | left | right
HashPosPair64(pos, a, b) == <<"sha256", "node", pos, a, b>>

\* ------------------------------------------------------------------------
\* Bytes
\* ------------------------------------------------------------------------

Byte == 0..255

\* the byte b with bit k inverted
FlipBit(b, k) == IF (b \div Pow2(k)) % 2 = 1 THEN b - Pow2(k) ELSE b + Pow2(k)

\* the byte string s with bit k of its p-th byte inverted
FlipAt(s, p, k) == [s EXCEPT ![p] = FlipBit(s[p], k)]

\* binary.BigEndian.Uint64: the 8 bytes as a 64 bit unsigned integer, kept
\* as four 16 bit limbs, most significant first
BigEndianUint64(b) == [k \in 1..4 |-> b[2 * k - 1] * 256 + b[2 * k]]

\* binary.BigEndian.PutUint64: the integer (four limbs) as 8 bytes
BigEndianPutUint64(v) ==
    [k \in 1..IDTimestapSizeBytes |->
        IF k % 2 = 1 THEN v[(k + 1) \div 2] \div 256 ELSE v[k \div 2] % 256]

\* massifs.SplitIDTimestampHex on the hex decoded id timestamp: one epoch
\* byte followed by the 8 byte big endian id
SplitIDTimestampHex(idts) ==
    IF Len(idts) # IDTimestapSizeBytes + 1 THEN Fail(ErrIDTimestampBytes)
    ELSE Ok([id |-> BigEndianUint64(SubSeq(idts, 2, IDTimestapSizeBytes + 1)),
             epoch |-> idts[1]])

\* ------------------------------------------------------------------------
\* State
\* ------------------------------------------------------------------------

VARIABLES
    nLeaves,        \* storage: the number of leaves committed to the log
    corrupt,        \* storage: index of a node whose stored value was altered, or NoCorrupt
    mode,           \* which operation this behaviour runs
    pc,             \* "start" before the operation, "done" once it has returned
    ret,            \* what the operation returned
    appEntries,     \* VerifyList: the list of app entries given by the caller
    leafIndex,      \* VerifyList: loop variable, the current leaf of the range
    appEntryIndex,  \* VerifyList: index (0 based) of the next entry of the list
    omittedMMRIndices, \* VerifyList: omitted mmr indices gathered so far
    massifContext,  \* VerifyList: the massif context updated as a side effect
    fetches,        \* VerifyList: massif indices requested from storage, in order
    visited,        \* VerifyList: <<leaf index, entry index>> of every step taken
    entry,          \* inclusion: the app entry being verified
    tamper,         \* inclusion: how entry differs from the committed entry, or None
    massifOption,   \* inclusion: the massif getter option of the caller
    proofRet,       \* inclusion: what AppEntry.Proof returned
    stateA,         \* consistency: log state A
    stateB,         \* consistency: log state B
    retSwapped,     \* consistency: what VerifyConsistency(B, A) returned
    args,           \* single function: the arguments it is applied to
    verifyErr,      \* signed state: what the verification of the signature returned
    ctx,            \* deadlines: the context the caller passes to the verification
    clock,          \* deadlines: the time that has passed
    fetch           \* deadlines: the massif fetch that is outstanding, or None

\* the stored log
storeVars == <<nLeaves, corrupt>>

\* the state of a run of VerifyList
listVars == <<appEntries, leafIndex, appEntryIndex, omittedMMRIndices,
              massifContext, fetches, visited>>

\* the state of a run of the inclusion operations of an app entry
inclusionVars == <<entry, tamper, massifOption, proofRet>>

\* the state of a run of VerifyConsistency
consistencyVars == <<stateA, stateB, retSwapped>>

\* the arguments of a function applied on its own, and the outcome of the
\* signature verification of the message it returned
functionVars == <<args, verifyErr>>

\* the state of a massif fetch under the contexts that bound it
deadlineVars == <<ctx, clock, fetch>>

vars == <<storeVars, mode, pc, ret, listVars, inclusionVars, consistencyVars,
          functionVars, deadlineVars>>

\* no node of the stored log is altered
NoCorrupt == 0 - 1

\* no function is applied on its own in the behaviour
FunctionIdle ==
    /\ args = None
    /\ verifyErr = None

\* no massif fetch under a deadline is part of the behaviour
DeadlineIdle ==
    /\ ctx = None
    /\ clock = 0
    /\ fetch = None


\* ------------------------------------------------------------------------
\* App entries (app.AppEntry) and the leaf hash derived from them
\* ------------------------------------------------------------------------

\* the single log tenant of the model, as the 16 byte log id
LogID == "log-1"

\* AppEntry.MMRIndex
EntryMMRIndex(ae) == ae.mmrIndex

\* AppEntry.LogTenant: the tenant identity derived from the log id
LogTenant(ae) == Ok(<<"tenant/", ae.logID>>)

\* the copy of the extra bytes started after the app domain byte
CopyExtraBytesAfterDomain(extraBytes) ==
    [k \in 1..ExtraBytesSize |->
        IF k + 1 <= Len(extraBytes) THEN extraBytes[k + 1] ELSE 0]

\* copy(mmrSalt[:ExtraBytesSize], extraBytes): the first 24 bytes of the extra
\* bytes, the rest of the 24 left zero
CopyExtraBytes(extraBytes) ==
    [k \in 1..ExtraBytesSize |-> IF k <= Len(extraBytes) THEN extraBytes[k] ELSE 0]

\* MMRSalt with the id timestamp left out of the salt
MMRSaltWithoutIDTimestamp(ae) ==
    LET split == SplitIDTimestampHex(ae.idTimestamp)
    IN  IF split.err # NoErr THEN Fail(split.err)
        ELSE LET head == CopyExtraBytes(ae.extraBytes)
             IN  Ok([k \in 1..MMRSaltSize |->
                        IF k <= ExtraBytesSize THEN head[k] ELSE 0])

\* AppEntry.MMRSalt: extra bytes | id timestamp, MMRSaltSize bytes
MMRSalt(ae) ==
    LET split == SplitIDTimestampHex(ae.idTimestamp)
    IN  IF split.err # NoErr THEN Fail(split.err)
        ELSE LET idTimestampBytes == BigEndianPutUint64(split.v.id)
                 head == CopyExtraBytes(ae.extraBytes)
             IN  Ok([k \in 1..MMRSaltSize |->
                        IF k <= ExtraBytesSize THEN head[k]
                        ELSE idTimestampBytes[k - ExtraBytesSize]])

\* AppEntry.MMREntry: H( domain | mmr salt | serialized bytes )
MMREntry(ae) ==
    LET mmrSalt == MMRSalt(ae)
    IN  IF mmrSalt.err # NoErr THEN Fail(mmrSalt.err)
        ELSE Ok(HashLeaf(<<ae.domain>> \o mmrSalt.v \o ae.serializedBytes))

\* ------------------------------------------------------------------------
\* The committed log (what the log operator stored)
\* ------------------------------------------------------------------------

\* extra bytes the app supplied for leaf l: app domain byte first; the length
\* is 24, 22 or 26 bytes depending on the leaf
CommittedExtraBytes(l) ==
    LET n == IF l % 3 = 0 THEN ExtraBytesSize
             ELSE IF l % 3 = 1 THEN ExtraBytesSize - 2 ELSE ExtraBytesSize + 2
    IN  [k \in 1..n |-> IF k = 1 THEN 1 ELSE (k + l) % 256]

\* the app entry committed at leaf l
CommittedEntry(l) ==
    [ mmrIndex        |-> MMRIndex(l),
      logID           |-> LogID,
      domain          |-> 0,
      extraBytes      |-> CommittedExtraBytes(l),
      idTimestamp     |-> <<1, 147, 26, 203, 123, 20, 4, 59, l>>,
      serializedBytes |-> <<l, 7>> ]

\* the true value of node i of the log: a leaf holds the leaf hash of its
\* committed entry, an interior node the hash of its position and children
RECURSIVE NodeValue(_)
NodeValue(i) ==
    LET g == IndexHeight(i)
    IN  IF g = 0 THEN MMREntry(CommittedEntry(LeafIndex(i))).v
        ELSE HashPosPair64(i + 1, NodeValue(i - Pow2(g)), NodeValue(i - 1))

\* the nodes of the log when it holds MaxLeaves leaves, computed once; the log
\* is append only, so a shorter log holds a prefix of them
CommittedLog == [i \in 0..(MMRSizeOfLeaves(MaxLeaves) - 1) |-> NodeValue(i)]

\* the value storage holds for node i
StoredValue(i) == IF i = corrupt THEN <<"altered">> ELSE CommittedLog[i]

\* the number of nodes the stored log holds
LogSize == MMRSizeOfLeaves(nLeaves)

\* ------------------------------------------------------------------------
\* Massif window (massifs.MassifContext, massifs.MassifReader)
\* ------------------------------------------------------------------------

\* number of leaves a massif of the given height holds
MassifLeaves(massifHeight) == Pow2(massifHeight - 1)

\* massifs.MassifIndexFromMMRIndex: the massif that stores mmrIndex
MassifIndexFromMMRIndex(massifHeight, mmrIndex) ==
    LeafIndex(mmrIndex) \div MassifLeaves(massifHeight)

\* massifs.MassifContext{}: the zero value VerifyList starts from
ZeroMassifContext == [loaded |-> FALSE, massifIndex |-> 0, massifHeight |-> 0]

\* MassifContext.Start.FirstIndex: mmr index of the first node of the massif
FirstIndex(mc) ==
    IF ~mc.loaded THEN 0
    ELSE MMRSizeOfLeaves(mc.massifIndex * MassifLeaves(mc.massifHeight))

\* MassifContext.LastLeafMMRIndex: mmr index of the last leaf the massif has
\* room for (whether or not that leaf has been committed yet)
LastLeafMMRIndex(mc) ==
    IF ~mc.loaded THEN 0
    ELSE FirstIndex(mc) + Pow2(mc.massifHeight) - mc.massifHeight - 1

\* MassifContext.RangeCount: the size of the mmr up to and including the
\* nodes this massif holds
RangeCount(mc) ==
    LET full == (mc.massifIndex + 1) * MassifLeaves(mc.massifHeight)
    IN  IF ~mc.loaded THEN 0
        ELSE MMRSizeOfLeaves(IF full < nLeaves THEN full ELSE nLeaves)

\* the ancestor peak stack of the massif: the peaks of the mmr that precedes it
PeakStack(mc) ==
    IF FirstIndex(mc) = 0 THEN {}
    ELSE LET p == Peaks(FirstIndex(mc) - 1) IN {p[k] : k \in 1..Len(p)}

\* the log id of a second tenant, whose log holds entries of its own
OtherLogID == "log-2"

\* the app entry the tenant of log id logID committed at leaf l
CommittedEntryOf(logID, l) ==
    IF logID = LogID THEN CommittedEntry(l)
    ELSE [CommittedEntry(l) EXCEPT !.logID = logID,
                                   !.serializedBytes = Append(@, 8)]

\* the true value of node i of the log of the second tenant
RECURSIVE OtherNodeValue(_)
OtherNodeValue(i) ==
    LET g == IndexHeight(i)
    IN  IF g = 0 THEN MMREntry(CommittedEntryOf(OtherLogID, LeafIndex(i))).v
        ELSE HashPosPair64(i + 1, OtherNodeValue(i - Pow2(g)), OtherNodeValue(i - 1))

OtherCommittedLog == [i \in 0..(MMRSizeOfLeaves(MaxLeaves) - 1) |-> OtherNodeValue(i)]

\* MassifContext.TenantIdentity: the tenant whose massif the context holds; a
\* context read for no named tenant is one of the tenant of LogID
TenantIdentity(mc) ==
    IF "tenant" \in DOMAIN mc THEN mc.tenant ELSE LogTenant(CommittedEntry(0)).v

\* the value node i has in the blob the context was read from
StoredValueOfTenant(mc, i) ==
    IF TenantIdentity(mc) = LogTenant(CommittedEntry(0)).v THEN StoredValue(i)
    ELSE OtherCommittedLog[i]

\* MassifContext.Get: the value of node i, from the massif's own nodes or from
\* its ancestor peak stack; any other index is an error
Get(mc, i) ==
    IF mc.loaded /\ ((i >= FirstIndex(mc) /\ i < RangeCount(mc)) \/ i \in PeakStack(mc))
    THEN Ok(StoredValueOfTenant(mc, i))
    ELSE Fail(ErrGetIndex)

\* MassifReader.GetMassif: the blob of massif massifIndex, when storage has it
GetMassif(massifIndex, massifHeight) ==
    IF massifIndex * MassifLeaves(massifHeight) < nLeaves
    THEN Ok([loaded |-> TRUE, massifIndex |-> massifIndex, massifHeight |-> massifHeight])
    ELSE Fail(ErrBlobNotFound)

\* Massif: the massif that contains mmrIndex, fetched from storage.
\* Returns [err, v (the context), fetched (massif indices requested)].
Massif(mmrIndex, massifHeight) ==
    LET massifIndex == MassifIndexFromMMRIndex(massifHeight, mmrIndex)
        massif == GetMassif(massifIndex, massifHeight)
    IN  [err |-> massif.err, v |-> massif.v, fetched |-> <<massifIndex>>]

\* UpdateMassifContext that assigns what Massif returned before looking at
\* its error
UpdateMassifContextAssignFirst(mc, mmrIndex, massifHeight) ==
    IF mmrIndex >= FirstIndex(mc) /\ mmrIndex < LastLeafMMRIndex(mc)
    THEN [err |-> NoErr, v |-> mc, fetched |-> <<>>]
    ELSE Massif(mmrIndex, massifHeight)

\* UpdateMassifContext: keeps the context when it contains mmrIndex, otherwise
\* replaces it by the massif that stores mmrIndex; on a failed fetch the
\* context stays as it was.
UpdateMassifContext(mc, mmrIndex, massifHeight) ==
    IF mmrIndex >= FirstIndex(mc) /\ mmrIndex < LastLeafMMRIndex(mc)
    THEN [err |-> NoErr, v |-> mc, fetched |-> <<>>]
    ELSE LET nextContext == Massif(mmrIndex, massifHeight)
         IN  IF nextContext.err # NoErr
             THEN [err |-> nextContext.err, v |-> mc, fetched |-> nextContext.fetched]
             ELSE nextContext

\* ------------------------------------------------------------------------
\* Inclusion proofs (package mmr)
\* ------------------------------------------------------------------------

\* mmr.InclusionProof: the sibling values on the path from node i up to the
\* peak that commits it in the mmr whose last node is mmrLastIndex
RECURSIVE InclusionProofLoop(_, _, _, _, _)
InclusionProofLoop(mc, mmrLastIndex, i, g, proof) ==
    LET siblingOffset == Pow2(g + 1)
        right == IndexHeight(i + 1) > g
        iSibling == IF right THEN i - siblingOffset + 1 ELSE i + siblingOffset - 1
        iNext == IF right THEN i + 1 ELSE i + siblingOffset
    IN  IF iNext > mmrLastIndex THEN Ok(proof)
        ELSE LET value == Get(mc, iSibling)
             IN  IF value.err # NoErr THEN Fail(value.err)
                 ELSE InclusionProofLoop(mc, mmrLastIndex, iNext, g + 1,
                                         Append(proof, value.v))

InclusionProof(mc, mmrLastIndex, i) ==
    InclusionProofLoop(mc, mmrLastIndex, i, IndexHeight(i), <<>>)

\* mmr.IncludedRoot: the root the proof implies for nodeHash at index i
RECURSIVE IncludedRootLoop(_, _, _, _, _)
IncludedRootLoop(i, g, root, proof, k) ==
    IF k > Len(proof) THEN root
    ELSE IF IndexHeight(i + 1) > g
         THEN IncludedRootLoop(i + 1, g + 1,
                               HashPosPair64(i + 2, proof[k], root), proof, k + 1)
         ELSE IncludedRootLoop(i + Pow2(g + 1), g + 1,
                               HashPosPair64(i + Pow2(g + 1) + 1, root, proof[k]),
                               proof, k + 1)

IncludedRoot(i, nodeHash, proof) ==
    IncludedRootLoop(i, IndexHeight(i), nodeHash, proof, 1)

\* mmr.PeakHashes: the stored values of the peaks of the mmr ending at mmrIndex
RECURSIVE PeakHashesLoop(_, _, _)
PeakHashesLoop(mc, peaks, k) ==
    IF k > Len(peaks) THEN Ok(<<>>)
    ELSE LET value == Get(mc, peaks[k])
             rest == PeakHashesLoop(mc, peaks, k + 1)
         IN  IF value.err # NoErr THEN Fail(value.err)
             ELSE IF rest.err # NoErr THEN rest
             ELSE Ok(<<value.v>> \o rest.v)

PeakHashes(mc, mmrIndex) == PeakHashesLoop(mc, Peaks(mmrIndex), 1)

\* mmr.VerifyInclusion: true when the proof leads from leafHash at iNode to
\* the accumulator peak of the mmr of size mmrSize that commits iNode.
\* Returns [err, v (the verdict)].
VerifyInclusionMMR(mc, mmrSize, leafHash, iNode, proof) ==
    LET peaks == PeakHashes(mc, mmrSize - 1)
        ipeak == PeakIndex(LeafCount(mmrSize), Len(proof))
    IN  IF peaks.err # NoErr THEN [err |-> peaks.err, v |-> FALSE]
        ELSE IF ipeak >= Len(peaks.v) THEN [err |-> ErrVerifyInclusionFailed, v |-> FALSE]
        ELSE IF IncludedRoot(iNode, leafHash, proof) # peaks.v[ipeak + 1]
             THEN [err |-> ErrVerifyInclusionFailed, v |-> FALSE]
        ELSE [err |-> NoErr, v |-> TRUE]

\* ------------------------------------------------------------------------
\* The list reconciler (VerifyList, VerifyAppEntryInList, LeafRange)
\* ------------------------------------------------------------------------

Unknown == "Unknown"
Included == "Included"
Excluded == "Excluded"
Omitted == "Omitted"

\* LeafRange with an upper bound one leaf past the last entry's
LeafRangePastLast(sortedEvents) ==
    LET lowerBoundMMRIndex == EntryMMRIndex(sortedEvents[1])
        upperBoundMMRIndex == EntryMMRIndex(sortedEvents[Len(sortedEvents)])
    IN  [low  |-> LeafCount(lowerBoundMMRIndex + 1) - 1,
         high |-> LeafCount(upperBoundMMRIndex + 1)]

\* LeafRange: lower and upper bound of the leaf indices of the leaf range, from
\* the mmr index of the first and of the last entry of the (non empty) list
LeafRange(sortedEvents) ==
    LET lowerBoundMMRIndex == EntryMMRIndex(sortedEvents[1])
        upperBoundMMRIndex == EntryMMRIndex(sortedEvents[Len(sortedEvents)])
    IN  [low  |-> LeafCount(lowerBoundMMRIndex + 1) - 1,
         high |-> LeafCount(upperBoundMMRIndex + 1) - 1]

\* One result of VerifyAppEntryInList: the classification, the error, the
\* massif context as left behind and the massif indices requested on the way
Step(type, err, mc, fetched) ==
    [type |-> type, err |-> err, mc |-> mc, fetched |-> fetched]

\* VerifyAppEntryInList, once mmr.VerifyInclusion has returned: what is made of
\* its result and its error
VerifyAppEntryInListVerified(updated, verified) ==
    IF ~verified.v \/ verified.err = ErrVerifyInclusionFailed
    THEN Step(Excluded, ErrInclusionProofVerify, updated.v, updated.fetched)
    ELSE IF verified.err # NoErr
         THEN Step(Unknown, verified.err, updated.v, updated.fetched)
         ELSE Step(Included, NoErr, updated.v, updated.fetched)

\* VerifyAppEntryInList, from the inclusion proof on: the proof of the leaf
\* against the accumulator of the massif's mmr is produced and verified
VerifyAppEntryInListProof(leafMMRIndex, mmrEntry, updated, mmrSize, inclusionProof) ==
    IF inclusionProof.err # NoErr
    THEN Step(Unknown, inclusionProof.err, updated.v, updated.fetched)
    ELSE \* mmr.VerifyInclusion(massifContext, sha256, mmrSize, mmrEntry, leafMMRIndex, proof)
         VerifyAppEntryInListVerified(updated,
            VerifyInclusionMMR(updated.v, mmrSize, mmrEntry, leafMMRIndex,
                               inclusionProof.v))

\* VerifyAppEntryInList without the comparison of the stored leaf value with
\* the hash derived from the app entry
VerifyAppEntryInListLeafUncompared(leafMMRIndex, updated, leafMMREntry, mmrEntry) ==
    IF updated.err # NoErr
    THEN Step(Unknown, updated.err, updated.v, updated.fetched)
    ELSE IF leafMMREntry.err # NoErr
         THEN Step(Unknown, leafMMREntry.err, updated.v, updated.fetched)
    ELSE IF mmrEntry.err # NoErr
         THEN Step(Unknown, mmrEntry.err, updated.v, updated.fetched)
    ELSE VerifyAppEntryInListProof(leafMMRIndex, mmrEntry.v, updated,
            RangeCount(updated.v),
            InclusionProof(updated.v, RangeCount(updated.v) - 1, leafMMRIndex))

\* VerifyAppEntryInList, once the massif context holds the leaf: the stored
\* leaf value is compared with the hash derived from the app entry
VerifyAppEntryInListLeaf(leafMMRIndex, updated, leafMMREntry, mmrEntry) ==
    IF updated.err # NoErr
    THEN Step(Unknown, updated.err, updated.v, updated.fetched)
    ELSE IF leafMMREntry.err # NoErr
         THEN Step(Unknown, leafMMREntry.err, updated.v, updated.fetched)
    ELSE IF mmrEntry.err # NoErr
         THEN Step(Unknown, mmrEntry.err, updated.v, updated.fetched)
    ELSE IF leafMMREntry.v # mmrEntry.v
         THEN Step(Excluded, ErrAppEntryNotOnLeaf, updated.v, updated.fetched)
    ELSE VerifyAppEntryInListProof(leafMMRIndex, mmrEntry.v, updated,
            RangeCount(updated.v),
            InclusionProof(updated.v, RangeCount(updated.v) - 1, leafMMRIndex))

\* VerifyAppEntryInList, after the index comparisons: the massif context is
\* brought to the massif of the leaf and the leaf is read from it
VerifyAppEntryInListMassif(leafMMRIndex, appEntry, updated) ==
    VerifyAppEntryInListLeaf(leafMMRIndex, updated,
                             Get(updated.v, leafMMRIndex), MMREntry(appEntry))

\* VerifyAppEntryInList bringing the massif context to the massif of the leaf
\* before it tests the app entry's mmr index
VerifyAppEntryInListUpdateFirst(leaf, appEntry, mc) ==
    LET leafMMRIndex == MMRIndex(leaf)
        appEntryMMRIndex == EntryMMRIndex(appEntry)
        updated == UpdateMassifContext(mc, leafMMRIndex, DefaultMassifHeight)
    IN  IF updated.err # NoErr
        THEN Step(Unknown, updated.err, updated.v, updated.fetched)
        ELSE IF IndexHeight(appEntryMMRIndex) # 0
        THEN Step(Excluded, ErrIntermediateNode, updated.v, updated.fetched)
        ELSE IF appEntryMMRIndex < leafMMRIndex
             THEN Step(Excluded, ErrDuplicateAppEntryMMRIndex, updated.v, updated.fetched)
        ELSE IF appEntryMMRIndex > leafMMRIndex
             THEN Step(Omitted, NoErr, updated.v, updated.fetched)
        ELSE VerifyAppEntryInListMassif(leafMMRIndex, appEntry, updated)

\* VerifyAppEntryInList: takes the next leaf and the next app entry and
\* verifies that the app entry is in that leaf position
VerifyAppEntryInList(leaf, appEntry, mc) ==
    LET leafMMRIndex == MMRIndex(leaf)
        appEntryMMRIndex == EntryMMRIndex(appEntry)
    IN  IF IndexHeight(appEntryMMRIndex) # 0
        THEN Step(Excluded, ErrIntermediateNode, mc, <<>>)
        ELSE IF appEntryMMRIndex < leafMMRIndex
             THEN Step(Excluded, ErrDuplicateAppEntryMMRIndex, mc, <<>>)
        ELSE IF appEntryMMRIndex > leafMMRIndex THEN Step(Omitted, NoErr, mc, <<>>)
        ELSE VerifyAppEntryInListMassif(leafMMRIndex, appEntry,
                UpdateMassifContext(mc, leafMMRIndex, DefaultMassifHeight))

\* what VerifyList returns: the omitted mmr indices (nil on error) and the error
Return(omitted, err) == [omitted |-> omitted, err |-> err]

NotReturned == Return(<<>>, "pending")

\* VerifyList up to its loop: the options are parsed, the massif context starts
\* as the zero value and the leaf range is taken from the list
VerifyListStart ==
    /\ mode = "list"
    /\ pc = "start"
    /\ IF Len(appEntries) = 0
       THEN /\ pc' = "done"
            /\ ret' = Return(<<>>, ErrIndexOutOfRange)
            /\ UNCHANGED leafIndex
       ELSE /\ pc' = "loop"
            /\ leafIndex' = LeafRange(appEntries).low
            /\ UNCHANGED ret
    /\ appEntryIndex' = 0
    /\ omittedMMRIndices' = <<>>
    /\ massifContext' = ZeroMassifContext
    /\ UNCHANGED <<storeVars, mode, appEntries, fetches, visited,
                   inclusionVars, consistencyVars,
                   functionVars, deadlineVars>>

\* the loop of VerifyList going on to the next leaf after a fatal step
VerifyListStepContinue ==
    /\ mode = "list"
    /\ pc = "loop"
    /\ leafIndex <= LeafRange(appEntries).high
    /\ IF appEntryIndex >= Len(appEntries)
       THEN /\ pc' = "done"
            /\ ret' = Return(<<>>, ErrNotEnoughAppEntriesInList)
            /\ UNCHANGED <<leafIndex, appEntryIndex, omittedMMRIndices,
                           massifContext, fetches, visited>>
       ELSE \E step \in {VerifyAppEntryInList(leafIndex, appEntries[appEntryIndex + 1],
                                              massifContext)} :
                /\ visited' = Append(visited, <<leafIndex, appEntryIndex>>)
                /\ massifContext' = step.mc
                /\ fetches' = fetches \o step.fetched
                /\ leafIndex' = leafIndex + 1
                /\ IF step.err # NoErr
                   THEN /\ ret' = Return(<<>>, step.err)
                        /\ UNCHANGED <<pc, appEntryIndex, omittedMMRIndices>>
                   ELSE IF step.type = Omitted
                   THEN /\ omittedMMRIndices' =
                                Append(omittedMMRIndices, MMRIndex(leafIndex))
                        /\ UNCHANGED <<pc, ret, appEntryIndex>>
                   ELSE /\ appEntryIndex' = appEntryIndex + 1
                        /\ UNCHANGED <<pc, ret, omittedMMRIndices>>
    /\ UNCHANGED <<storeVars, mode, appEntries, inclusionVars, consistencyVars,
                   functionVars, deadlineVars>>

\* one iteration of the loop of VerifyList over the leaf range
VerifyListStep ==
    /\ mode = "list"
    /\ pc = "loop"
    /\ leafIndex <= LeafRange(appEntries).high
    /\ IF appEntryIndex >= Len(appEntries)
       THEN /\ pc' = "done"
            /\ ret' = Return(<<>>, ErrNotEnoughAppEntriesInList)
            /\ UNCHANGED <<leafIndex, appEntryIndex, omittedMMRIndices,
                           massifContext, fetches, visited>>
       ELSE \E step \in {VerifyAppEntryInList(leafIndex, appEntries[appEntryIndex + 1],
                                              massifContext)} :
                /\ visited' = Append(visited, <<leafIndex, appEntryIndex>>)
                /\ massifContext' = step.mc
                /\ fetches' = fetches \o step.fetched
                /\ IF step.err # NoErr
                   THEN /\ pc' = "done"
                        /\ ret' = Return(<<>>, step.err)
                        /\ UNCHANGED <<leafIndex, appEntryIndex, omittedMMRIndices>>
                   ELSE IF step.type = Omitted
                   THEN /\ omittedMMRIndices' =
                                Append(omittedMMRIndices, MMRIndex(leafIndex))
                        /\ leafIndex' = leafIndex + 1
                        /\ UNCHANGED <<pc, ret, appEntryIndex>>
                   ELSE /\ appEntryIndex' = appEntryIndex + 1
                        /\ leafIndex' = leafIndex + 1
                        /\ UNCHANGED <<pc, ret, omittedMMRIndices>>
    /\ UNCHANGED <<storeVars, mode, appEntries, inclusionVars, consistencyVars,
                   functionVars, deadlineVars>>

\* the leaf range is exhausted: VerifyList returns the omitted mmr indices
VerifyListReturn ==
    /\ mode = "list"
    /\ pc = "loop"
    /\ leafIndex > LeafRange(appEntries).high
    /\ pc' = "done"
    /\ ret' = Return(omittedMMRIndices, NoErr)
    /\ UNCHANGED <<storeVars, mode, listVars, inclusionVars, consistencyVars,
                   functionVars, deadlineVars>>

\* ------------------------------------------------------------------------
\* Inputs of the list reconciler
\* ------------------------------------------------------------------------

\* the mmr indices an entry of the list may carry: every node of the stored
\* log (leaves and interior nodes) and the first leaf of the first massif that
\* storage does not hold
FirstMissingLeaf(n) ==
    ((n + MassifLeaves(DefaultMassifHeight) - 1) \div MassifLeaves(DefaultMassifHeight))
        * MassifLeaves(DefaultMassifHeight)

EntryIndices(n) == 0..(MMRSizeOfLeaves(n) - 1) \cup {MMRIndex(FirstMissingLeaf(n))}

\* the app entry a caller presents for mmr index i: the entry committed at the
\* leaf of i, with one bit of its serialized bytes inverted when tampered
MakeEntry(i, tampered) ==
    LET committed == CommittedEntry(LeafIndex(i))
    IN  [committed EXCEPT
            !.mmrIndex = i,
            !.serializedBytes = IF tampered THEN FlipAt(@, 1, 0) ELSE @]

EntrySet(n) == {MakeEntry(i, t) : i \in EntryIndices(n), t \in BOOLEAN}

ListsOver(S) == UNION {[1..k -> S] : k \in 0..MaxEntries}

Init ==
    /\ nLeaves \in 1..MaxLeaves
    /\ corrupt \in {NoCorrupt} \cup 0..(MMRSizeOfLeaves(nLeaves) - 1)
    /\ mode = "list"
    /\ appEntries \in ListsOver(EntrySet(nLeaves))
    /\ leafIndex = 0
    /\ appEntryIndex = 0
    /\ omittedMMRIndices = <<>>
    /\ massifContext = ZeroMassifContext
    /\ fetches = <<>>
    /\ visited = <<>>
    /\ pc = "start"
    /\ ret = NotReturned
    /\ entry = None
    /\ tamper = None
    /\ massifOption = None
    /\ proofRet = None
    /\ stateA = None
    /\ stateB = None
    /\ retSwapped = None
    /\ FunctionIdle
    /\ DeadlineIdle

Next == VerifyListStart \/ VerifyListStep \/ VerifyListReturn

Spec == Init /\ [][Next]_vars

\* ------------------------------------------------------------------------
\* Inclusion of one app entry (AppEntry.Massif, Proof, VerifyProof,
\* VerifyInclusion)
\* ------------------------------------------------------------------------

ErrNoMassifSource == "no way of determining massif of app entry"

\* ParseMassifGetterOptions: the defaults, before any option is applied
ParseMassifGetterOptions ==
    [massifContext |-> None, massifReader |-> FALSE, MassifHeight |-> DefaultMassifHeight]

\* WithMassifReader: the massif is read from storage through the massif reader
WithMassifReader == [ParseMassifGetterOptions EXCEPT !.massifReader = TRUE]

\* WithMassifContext: the app entry uses the given massif context
WithMassifContext(mc) == [ParseMassifGetterOptions EXCEPT !.massifContext = mc]

\* AppEntry.Massif: the massif context of the entry: the caller's context when
\* one is given, else the massif of the entry's mmr index read from storage
AppEntryMassif(ae, options) ==
    IF options.massifContext # None THEN Ok(options.massifContext)
    ELSE IF ~options.massifReader THEN Fail(ErrNoMassifSource)
    ELSE LET logIdentity == LogTenant(ae)
             massif == Massif(EntryMMRIndex(ae), options.MassifHeight)
         IN  IF logIdentity.err # NoErr THEN Fail(logIdentity.err)
             ELSE [err |-> massif.err, v |-> massif.v]

\* AppEntry.Proof: the inclusion proof of the entry's mmr index in the mmr of
\* the massif
Proof(ae, options) ==
    LET massif == AppEntryMassif(ae, options)
    IN  IF massif.err # NoErr THEN Fail(massif.err)
        ELSE InclusionProof(massif.v, RangeCount(massif.v) - 1, EntryMMRIndex(ae))

\* VerifyProof with the last index of the mmr passed where its size is expected
VerifyProofUpToLastIndex(ae, proof, options) ==
    LET massif == AppEntryMassif(ae, options)
        mmrEntry == MMREntry(ae)
    IN  IF massif.err # NoErr THEN [err |-> massif.err, v |-> FALSE]
        ELSE IF mmrEntry.err # NoErr THEN [err |-> mmrEntry.err, v |-> FALSE]
        ELSE VerifyInclusionMMR(massif.v, RangeCount(massif.v) - 1, mmrEntry.v,
                                EntryMMRIndex(ae), proof)

\* AppEntry.VerifyProof: verifies the proof for the leaf hash derived from the
\* entry against the mmr of the massif. Returns [err, v (the verdict)].
VerifyProof(ae, proof, options) ==
    LET massif == AppEntryMassif(ae, options)
        mmrEntry == MMREntry(ae)
    IN  IF massif.err # NoErr THEN [err |-> massif.err, v |-> FALSE]
        ELSE IF mmrEntry.err # NoErr THEN [err |-> mmrEntry.err, v |-> FALSE]
        ELSE VerifyInclusionMMR(massif.v, RangeCount(massif.v), mmrEntry.v,
                                EntryMMRIndex(ae), proof)

\* AppEntry.VerifyInclusion, once the massif is known
VerifyInclusionIn(ae, massif, proof) ==
    IF massif.err # NoErr THEN [err |-> massif.err, v |-> FALSE]
    ELSE IF proof.err # NoErr THEN [err |-> proof.err, v |-> FALSE]
    ELSE VerifyProof(ae, proof.v, WithMassifContext(massif.v))

\* AppEntry.VerifyInclusion: proof and verification against the same massif
VerifyInclusion(ae, options) ==
    VerifyInclusionIn(ae, AppEntryMassif(ae, options),
        Proof(ae, WithMassifContext(AppEntryMassif(ae, options).v)))

\* the caller asks for the inclusion proof of the entry
ProofCall ==
    /\ mode = "inclusion"
    /\ pc = "start"
    /\ proofRet' = Proof(entry, massifOption)
    /\ pc' = "proved"
    /\ UNCHANGED <<storeVars, mode, ret, listVars, entry, tamper, massifOption,
                   consistencyVars,
                   functionVars, deadlineVars>>

\* the caller verifies the proof it obtained
VerifyProofCall ==
    /\ mode = "inclusion"
    /\ pc = "proved"
    /\ proofRet.err = NoErr
    /\ ret' = VerifyProof(entry, proofRet.v, massifOption)
    /\ pc' = "done"
    /\ UNCHANGED <<storeVars, mode, listVars, inclusionVars, consistencyVars,
                   functionVars, deadlineVars>>

\* the caller asks for the inclusion of the entry to be verified in one call
VerifyInclusionCall ==
    /\ mode = "inclusion"
    /\ pc = "start"
    /\ ret' = VerifyInclusion(entry, massifOption)
    /\ pc' = "done"
    /\ UNCHANGED <<storeVars, mode, listVars, inclusionVars, consistencyVars,
                   functionVars, deadlineVars>>

\* the single bit changes a caller's copy of an entry may carry
Tampers(ae) ==
    {[field |-> f, pos |-> p, bit |-> b] :
        f \in {"serializedBytes"}, p \in 1..Len(ae.serializedBytes), b \in 0..7}
    \cup {[field |-> f, pos |-> p, bit |-> b] :
        f \in {"extraBytes"}, p \in 1..Len(ae.extraBytes), b \in 0..7}
    \cup {[field |-> f, pos |-> p, bit |-> b] :
        f \in {"idTimestamp"}, p \in 1..Len(ae.idTimestamp), b \in 0..7}

\* the entry ae with the bit named by t inverted (ae itself when t is None)
Tampered(ae, t) ==
    IF t = None THEN ae
    ELSE IF t.field = "serializedBytes"
         THEN [ae EXCEPT !.serializedBytes = FlipAt(@, t.pos, t.bit)]
    ELSE IF t.field = "extraBytes"
         THEN [ae EXCEPT !.extraBytes = FlipAt(@, t.pos, t.bit)]
    ELSE [ae EXCEPT !.idTimestamp = FlipAt(@, t.pos, t.bit)]

\* the massifs storage holds for a log of n leaves
StoredMassifs(n) ==
    0..((n - 1) \div MassifLeaves(DefaultMassifHeight))

\* the options a caller may pass: none, the reader, or the context of any
\* massif of the log
MassifGetterOptionChoices(n) ==
    {ParseMassifGetterOptions, WithMassifReader}
    \cup {WithMassifContext(GetMassif(m, DefaultMassifHeight).v) : m \in StoredMassifs(n)}

InclusionInit ==
    /\ nLeaves \in 1..MaxLeaves
    /\ corrupt = NoCorrupt
    /\ mode = "inclusion"
    /\ pc = "start"
    /\ ret = None
    /\ \E l \in 0..(nLeaves - 1) :
          /\ tamper \in {None} \cup Tampers(CommittedEntry(l))
          /\ entry = Tampered(CommittedEntry(l), tamper)
    /\ massifOption \in MassifGetterOptionChoices(nLeaves)
    /\ proofRet = None
    /\ appEntries = <<>>
    /\ leafIndex = 0
    /\ appEntryIndex = 0
    /\ omittedMMRIndices = <<>>
    /\ massifContext = ZeroMassifContext
    /\ fetches = <<>>
    /\ visited = <<>>
    /\ stateA = None
    /\ stateB = None
    /\ retSwapped = None
    /\ FunctionIdle
    /\ DeadlineIdle

InclusionNext == ProofCall \/ VerifyProofCall \/ VerifyInclusionCall

InclusionSpec == InclusionInit /\ [][InclusionNext]_vars

\* ------------------------------------------------------------------------
\* Consistency of two log states (VerifyConsistency, mmr.CheckConsistency)
\* ------------------------------------------------------------------------

ErrAccumulatorProofLen == "ErrAccumulatorProofLen"

\* mmr.IndexConsistencyProof: the inclusion proofs, in the mmr ending at
\* mmrIndexB, of the peaks of the mmr ending at mmrIndexA
RECURSIVE IndexConsistencyProofLoop(_, _, _, _)
IndexConsistencyProofLoop(mc, mmrIndexB, peaksA, k) ==
    IF k > Len(peaksA) THEN Ok(<<>>)
    ELSE LET peakProof == InclusionProof(mc, mmrIndexB, peaksA[k])
             rest == IndexConsistencyProofLoop(mc, mmrIndexB, peaksA, k + 1)
         IN  IF peakProof.err # NoErr THEN Fail(peakProof.err)
             ELSE IF rest.err # NoErr THEN rest
             ELSE Ok(<<peakProof.v>> \o rest.v)

IndexConsistencyProofPath(mmrIndexA, mmrIndexB, path) ==
    IF path.err # NoErr THEN Fail(path.err)
    ELSE Ok([MMRSizeA |-> mmrIndexA + 1, MMRSizeB |-> mmrIndexB + 1, Path |-> path.v])

IndexConsistencyProof(mc, mmrIndexA, mmrIndexB) ==
    IndexConsistencyProofPath(mmrIndexA, mmrIndexB,
        IndexConsistencyProofLoop(mc, mmrIndexB, Peaks(mmrIndexA), 1))

\* mmr.ConsistentRoots: the roots the proofs imply for the peaks of the
\* accumulator of the earlier mmr, adjacent equal roots listed once
RECURSIVE ConsistentRootsLoop(_, _, _, _, _)
ConsistentRootsLoop(frompeaks, accumulatorfrom, proofs, iacc, roots) ==
    IF iacc > Len(accumulatorfrom) THEN roots
    ELSE LET root == IncludedRoot(frompeaks[iacc], accumulatorfrom[iacc], proofs[iacc])
         IN  ConsistentRootsLoop(frompeaks, accumulatorfrom, proofs, iacc + 1,
                 IF Len(roots) > 0 /\ roots[Len(roots)] = root
                 THEN roots ELSE Append(roots, root))

ConsistentRoots(ifrom, accumulatorfrom, proofs) ==
    IF Len(Peaks(ifrom)) # Len(proofs) THEN Fail(ErrAccumulatorProofLen)
    ELSE IF Len(accumulatorfrom) > Len(proofs) THEN Fail(ErrIndexOutOfRange)
    ELSE Ok(ConsistentRootsLoop(Peaks(ifrom), accumulatorfrom, proofs, 1, <<>>))

\* the linear scan of mmr.VerifyConsistency: every proven root is the current
\* peak of the later accumulator or the next one down
RECURSIVE ProvenRootsMatch(_, _, _, _)
ProvenRootsMatch(proven, peaksTo, k, ito) ==
    IF k > Len(proven) THEN TRUE
    ELSE IF ito + 1 <= Len(peaksTo) /\ peaksTo[ito + 1] = proven[k]
         THEN ProvenRootsMatch(proven, peaksTo, k + 1, ito)
    ELSE IF ito + 1 >= Len(peaksTo) THEN FALSE
    ELSE IF peaksTo[ito + 2] # proven[k] THEN FALSE
    ELSE ProvenRootsMatch(proven, peaksTo, k + 1, ito + 1)

\* mmr.VerifyConsistency: true when the accumulator peaksFrom of the earlier
\* mmr is committed by the accumulator peaksTo of the later one. mismatchErr is
\* the error the library pairs with a false verdict.
VerifyConsistencyProven(proven, peaksTo, mismatchErr) ==
    IF proven.err # NoErr THEN [err |-> proven.err, v |-> FALSE]
    ELSE IF ProvenRootsMatch(proven.v, peaksTo, 1, 0) THEN [err |-> NoErr, v |-> TRUE]
    ELSE [err |-> mismatchErr, v |-> FALSE]

VerifyConsistencyMMR(cp, peaksFrom, peaksTo, mismatchErr) ==
    VerifyConsistencyProven(ConsistentRoots(cp.MMRSizeA - 1, peaksFrom, cp.Path),
                            peaksTo, mismatchErr)

\* mmr.CheckConsistency: proves and verifies, from the store, that the mmr of
\* size mmrSizeB commits the accumulator peakHashesA of the mmr of size cpSize
CheckConsistencyProved(cp, peakHashesB, peakHashesA, mismatchErr) ==
    IF cp.err # NoErr THEN [err |-> cp.err, v |-> FALSE]
    ELSE IF peakHashesB.err # NoErr THEN [err |-> peakHashesB.err, v |-> FALSE]
    ELSE VerifyConsistencyMMR(cp.v, peakHashesA, peakHashesB.v, mismatchErr)

CheckConsistency(mc, cpSize, mmrSizeB, peakHashesA, mismatchErr) ==
    CheckConsistencyProved(IndexConsistencyProof(mc, cpSize - 1, mmrSizeB - 1),
                           PeakHashes(mc, mmrSizeB - 1), peakHashesA, mismatchErr)

\* VerifyConsistency with the peaks of log state B given as the accumulator of
\* log state A
VerifyConsistencyPeaksOfB(logStateA, logStateB, mismatchErr) ==
    IF Len(logStateA.Peaks) = 0 \/ Len(logStateB.Peaks) = 0
    THEN [err |-> ErrPeaksNotSet, v |-> FALSE]
    ELSE LET massifContextB == Massif(logStateB.MMRSize - 1, DefaultMassifHeight)
         IN  IF massifContextB.err # NoErr
             THEN [err |-> massifContextB.err, v |-> FALSE]
             ELSE CheckConsistency(massifContextB.v, logStateA.MMRSize,
                                   logStateB.MMRSize, logStateB.Peaks, mismatchErr)

\* VerifyConsistency with the arguments of CheckConsistency exchanged
VerifyConsistencyExchanged(logStateA, logStateB, mismatchErr) ==
    IF Len(logStateA.Peaks) = 0 \/ Len(logStateB.Peaks) = 0
    THEN [err |-> ErrPeaksNotSet, v |-> FALSE]
    ELSE LET massifContextB == Massif(logStateB.MMRSize - 1, DefaultMassifHeight)
         IN  IF massifContextB.err # NoErr
             THEN [err |-> massifContextB.err, v |-> FALSE]
             ELSE CheckConsistency(massifContextB.v, logStateB.MMRSize,
                                   logStateA.MMRSize, logStateA.Peaks, mismatchErr)

\* VerifyConsistency: verifies that log state B is consistent with (extends)
\* log state A, from the last massif of log state B. Returns [err, v].
VerifyConsistency(logStateA, logStateB, mismatchErr) ==
    IF Len(logStateA.Peaks) = 0 \/ Len(logStateB.Peaks) = 0
    THEN [err |-> ErrPeaksNotSet, v |-> FALSE]
    ELSE LET massifContextB == Massif(logStateB.MMRSize - 1, DefaultMassifHeight)
         IN  IF massifContextB.err # NoErr
             THEN [err |-> massifContextB.err, v |-> FALSE]
             ELSE CheckConsistency(massifContextB.v, logStateA.MMRSize,
                                   logStateB.MMRSize, logStateA.Peaks, mismatchErr)

\* the errors the mmr library may return with a false verdict of
\* mmr.VerifyConsistency (it depends on the version of the library)
MismatchErrs == {NoErr, ErrConsistencyCheck}

\* the caller verifies that log state B extends log state A
VerifyConsistencyCall ==
    /\ mode = "consistency"
    /\ pc = "start"
    /\ \E mismatchErr \in MismatchErrs :
          ret' = VerifyConsistency(stateA, stateB, mismatchErr)
    /\ pc' = "checked"
    /\ UNCHANGED <<storeVars, mode, listVars, inclusionVars, consistencyVars,
                   functionVars, deadlineVars>>

\* the caller then verifies the reverse: that log state A extends log state B
VerifyConsistencyReverseCall ==
    /\ mode = "consistency"
    /\ pc = "checked"
    /\ \E mismatchErr \in MismatchErrs :
          retSwapped' = VerifyConsistency(stateB, stateA, mismatchErr)
    /\ pc' = "done"
    /\ UNCHANGED <<storeVars, mode, ret, listVars, inclusionVars, stateA, stateB,
                   functionVars, deadlineVars>>

\* the peak hashes of the committed log at the given size
RECURSIVE CommittedPeakHashes(_, _)
CommittedPeakHashes(peaks, k) ==
    IF k > Len(peaks) THEN <<>>
    ELSE <<CommittedLog[peaks[k]]>> \o CommittedPeakHashes(peaks, k + 1)

\* massifs.MMRState: the log state signed when the log held mmrSize nodes; with
\* peaksSet false the peaks were not filled in
MMRState(mmrSize, peaksSet) ==
    [MMRSize |-> mmrSize,
     Peaks |-> IF peaksSet THEN CommittedPeakHashes(Peaks(mmrSize - 1), 1) ELSE <<>>]

\* the sizes the log went through while it grew to n leaves
LogSizes(n) == {MMRSizeOfLeaves(k) : k \in 1..n}

ConsistencyInit ==
    /\ nLeaves \in 1..MaxLeaves
    /\ corrupt \in {NoCorrupt} \cup 0..(MMRSizeOfLeaves(nLeaves) - 1)
    /\ mode = "consistency"
    /\ pc = "start"
    /\ ret = None
    /\ retSwapped = None
    /\ stateA \in {MMRState(size, set) : size \in LogSizes(nLeaves), set \in BOOLEAN}
    /\ stateB \in {MMRState(size, set) : size \in LogSizes(nLeaves), set \in BOOLEAN}
    /\ entry = None
    /\ tamper = None
    /\ massifOption = None
    /\ proofRet = None
    /\ appEntries = <<>>
    /\ leafIndex = 0
    /\ appEntryIndex = 0
    /\ omittedMMRIndices = <<>>
    /\ massifContext = ZeroMassifContext
    /\ fetches = <<>>
    /\ visited = <<>>
    /\ FunctionIdle
    /\ DeadlineIdle

ConsistencyNext == VerifyConsistencyCall \/ VerifyConsistencyReverseCall

ConsistencySpec == ConsistencyInit /\ [][ConsistencyNext]_vars

\* ------------------------------------------------------------------------
\* The mmr salt of an app entry on its own (AppEntry.MMRSalt)
\* ------------------------------------------------------------------------

\* no run of VerifyList is part of the behaviour
ListIdle ==
    /\ appEntries = <<>>
    /\ leafIndex = 0
    /\ appEntryIndex = 0
    /\ omittedMMRIndices = <<>>
    /\ massifContext = ZeroMassifContext
    /\ fetches = <<>>
    /\ visited = <<>>

\* no comparison of log states is part of the behaviour
ConsistencyIdle ==
    /\ stateA = None
    /\ stateB = None
    /\ retSwapped = None

\* extra bytes an app may supply: none, the app domain byte alone, one short
\* of ExtraBytesSize, exactly ExtraBytesSize, and one and two beyond it
SaltExtraBytes ==
    {[k \in 1..n |-> IF k = 1 THEN 1 ELSE (k * m + 250) % 256] :
        n \in {0, 1, ExtraBytesSize - 1, ExtraBytesSize, ExtraBytesSize + 1,
               ExtraBytesSize + 2},
        m \in 1..3}

\* hex decoded id timestamps: well formed (epoch byte and IDTimestapSizeBytes
\* id bytes) and malformed (empty, one byte short, one byte long)
SaltIDTimestamps ==
    { <<1, 147, 26, 203, 123, 20, 4, 59, 0>>,
      <<0, 0, 0, 0, 0, 0, 0, 0, 1>>,
      <<255, 255, 254, 253, 252, 251, 250, 249, 248>>,
      <<2, 1, 0, 255, 0, 128, 127, 0, 255>>,
      <<>>,
      <<147, 26, 203, 123, 20, 4, 59, 0>>,
      <<1, 147, 26, 203, 123, 20, 4, 59, 0, 9>> }

SaltEntries ==
    {[CommittedEntry(0) EXCEPT !.extraBytes = e, !.idTimestamp = t] :
        e \in SaltExtraBytes, t \in SaltIDTimestamps}

\* the caller asks for the mmr salt of the entry
MMRSaltCall ==
    /\ mode = "salt"
    /\ pc = "start"
    /\ ret' = MMRSalt(entry)
    /\ pc' = "done"
    /\ UNCHANGED <<storeVars, mode, listVars, inclusionVars, consistencyVars,
                   functionVars, deadlineVars>>

SaltInit ==
    /\ nLeaves = 1
    /\ corrupt = NoCorrupt
    /\ mode = "salt"
    /\ pc = "start"
    /\ ret = None
    /\ entry \in SaltEntries
    /\ tamper = None
    /\ massifOption = None
    /\ proofRet = None
    /\ ListIdle
    /\ ConsistencyIdle
    /\ FunctionIdle
    /\ DeadlineIdle

SaltNext == MMRSaltCall

SaltSpec == SaltInit /\ [][SaltNext]_vars

\* ------------------------------------------------------------------------
\* Extra bytes of an events v1 entry (NewEventsV1ExtraBytes)
\* ------------------------------------------------------------------------

EventsV1AppDomain == 1

ErrInvalidUUID == "invalid UUID"

\* A tenant string is [prefixes, form, digits]: the number of leading
\* "tenant/", the form the rest is written in, and its hexadecimal digits (a
\* value above 15 stands for a character that is no hexadecimal digit).

\* the forms uuid.Parse reads: xxxxxxxx-xxxx-xxxx-xxxx-xxxxxxxxxxxx, the same
\* after urn:uuid:, the same in braces, and the 32 digits on their own
UUIDForms == {"canonical", "urn", "braced", "compact"}

\* strings.TrimPrefix(s, "tenant/"): one leading "tenant/" is removed
TrimPrefix(s) == IF s.prefixes > 0 THEN [s EXCEPT !.prefixes = @ - 1] ELSE s

\* uuid.Parse: the 16 bytes of the uuid, two digits a byte
UUIDParse(s) ==
    IF s.prefixes > 0 \/ s.form \notin UUIDForms \/ Len(s.digits) # 32
    THEN Fail(ErrInvalidUUID)
    ELSE IF \E k \in 1..32 : s.digits[k] > 15 THEN Fail(ErrInvalidUUID)
    ELSE Ok([k \in 1..16 |-> 16 * s.digits[2 * k - 1] + s.digits[2 * k]])

\* NewEventsV1ExtraBytes with the origin tenant parsed as it is given
NewEventsV1ExtraBytesUntrimmed(originTenant) ==
    LET originTenantUuid == UUIDParse(originTenant)
    IN  IF originTenantUuid.err # NoErr THEN Fail(originTenantUuid.err)
        ELSE Ok([k \in 1..ExtraBytesSize |->
                    IF k = 1 THEN EventsV1AppDomain
                    ELSE IF k <= Len(originTenantUuid.v) + 1
                         THEN originTenantUuid.v[k - 1] ELSE 0])

\* NewEventsV1ExtraBytes: app domain byte | origin tenant uuid | zeros
NewEventsV1ExtraBytes(originTenant) ==
    LET originTenantUuid == UUIDParse(TrimPrefix(originTenant))
    IN  IF originTenantUuid.err # NoErr THEN Fail(originTenantUuid.err)
        ELSE Ok([k \in 1..ExtraBytesSize |->
                    IF k = 1 THEN EventsV1AppDomain
                    ELSE IF k <= Len(originTenantUuid.v) + 1
                         THEN originTenantUuid.v[k - 1] ELSE 0])

\* digits of tenant strings: 006e21d7-63d7-47bb-9a7e-0db55621317f, all f, all
\* 0; one digit short, one digit long, and one with a letter beyond f
TenantDigits ==
    { <<0,0,6,14,2,1,13,7, 6,3,13,7, 4,7,11,11, 9,10,7,14, 0,13,11,5,5,6,2,1,3,1,7,15>>,
      [k \in 1..32 |-> 15],
      [k \in 1..32 |-> 0],
      [k \in 1..31 |-> k % 16],
      [k \in 1..33 |-> k % 16],
      [k \in 1..32 |-> IF k = 20 THEN 16 ELSE k % 16] }

OriginTenants ==
    [prefixes : 0..2, form : UUIDForms \cup {"other"}, digits : TenantDigits]

\* the caller asks for the extra bytes of an event of the origin tenant
NewEventsV1ExtraBytesCall ==
    /\ mode = "extraBytes"
    /\ pc = "start"
    /\ ret' = NewEventsV1ExtraBytes(args)
    /\ pc' = "done"
    /\ UNCHANGED <<storeVars, mode, listVars, inclusionVars, consistencyVars,
                   functionVars, deadlineVars>>

\* no operation on a single app entry is part of the behaviour
InclusionIdle ==
    /\ entry = None
    /\ tamper = None
    /\ massifOption = None
    /\ proofRet = None

\* no log is read in the behaviour
StoreIdle ==
    /\ nLeaves = 1
    /\ corrupt = NoCorrupt

ExtraBytesInit ==
    /\ mode = "extraBytes"
    /\ pc = "start"
    /\ ret = None
    /\ args \in OriginTenants
    /\ verifyErr = None
    /\ StoreIdle
    /\ ListIdle
    /\ InclusionIdle
    /\ ConsistencyIdle
    /\ DeadlineIdle

ExtraBytesNext == NewEventsV1ExtraBytesCall

ExtraBytesSpec == ExtraBytesInit /\ [][ExtraBytesNext]_vars

\* ------------------------------------------------------------------------
\* Massif lookup with options (ParseMassifOptions, handleMassifIndexErr and
\* the Massif that takes options)
\* ------------------------------------------------------------------------

ErrNotleaf == "ErrNotleaf"

\* an error that wraps ErrNotleaf (fmt.Errorf("...: %w", massifs.ErrNotleaf))
ErrWrappedNotleaf == "massif index: ErrNotleaf"

ErrMock == "mock error"

\* errors.Unwrap: the error err wraps, nil when it wraps none
Unwrap(err) == IF err = ErrWrappedNotleaf THEN ErrNotleaf ELSE NoErr

\* errors.Is: err or an error it wraps is target
ErrorsIs(err, target) ==
    /\ err # NoErr
    /\ (err = target \/ Unwrap(err) = target)

\* handleMassifIndexErr with every error suppressed once suppression is on
handleMassifIndexErrAny(err, nonLeafNode) ==
    IF ~nonLeafNode THEN err ELSE NoErr

\* handleMassifIndexErr: the error of the massif index of an mmr index, with
\* ErrNotleaf suppressed when nonLeafNode is set
handleMassifIndexErr(err, nonLeafNode) ==
    IF ~nonLeafNode THEN err
    ELSE IF ~ErrorsIs(err, ErrNotleaf) THEN err
    ELSE NoErr

\* WithNonLeafNode, WithMassifHeight: an option sets one field, the one it names
WithNonLeafNode(nonLeafNode) ==
    [field |-> "nonLeafNode", nonLeafNode |-> nonLeafNode, massifHeight |-> 0]

WithMassifHeight(massifHeight) ==
    [field |-> "massifHeight", nonLeafNode |-> FALSE, massifHeight |-> massifHeight]

\* ParseMassifOptions: the defaults, then every option in the order given
RECURSIVE ApplyMassifOptions(_, _, _)
ApplyMassifOptions(massifOptions, options, k) ==
    IF k > Len(options) THEN massifOptions
    ELSE ApplyMassifOptions(
            IF options[k].field = "nonLeafNode"
            THEN [massifOptions EXCEPT !.nonLeafNode = options[k].nonLeafNode]
            ELSE [massifOptions EXCEPT !.massifHeight = options[k].massifHeight],
            options, k + 1)

ParseMassifOptions(options) ==
    ApplyMassifOptions([nonLeafNode |-> FALSE, massifHeight |-> DefaultMassifHeight],
                       options, 1)

\* massifs.MassifIndexFromMMRIndex of the library version that reports nodes
\* that are no leaves: for a leaf its massif; for an interior node ErrNotleaf,
\* with an index that is 0 or the massif of the last leaf below the node
MassifIndexFromMMRIndexOrNotleaf(massifHeight, mmrIndex) ==
    IF IndexHeight(mmrIndex) = 0
    THEN {Ok(MassifIndexFromMMRIndex(massifHeight, mmrIndex))}
    ELSE {[err |-> ErrNotleaf, v |-> m] :
            m \in {0, MassifIndexFromMMRIndex(massifHeight, mmrIndex)}}

\* Massif (with options), given what MassifIndexFromMMRIndex returned.
\* Returns [err, v (the context), fetched (massif indices requested)].
MassifWithOptions(massifIndex, massifHeight, opts) ==
    LET massifOptions == ParseMassifOptions(opts)
        err == handleMassifIndexErr(massifIndex.err, massifOptions.nonLeafNode)
        massif == GetMassif(massifIndex.v, massifHeight)
    IN  IF err # NoErr THEN [err |-> err, v |-> None, fetched |-> <<>>]
        ELSE [err |-> massif.err, v |-> massif.v, fetched |-> <<massifIndex.v>>]

\* the option lists a caller may pass
MassifOptionChoices ==
    {WithNonLeafNode(TRUE), WithNonLeafNode(FALSE),
     WithMassifHeight(DefaultMassifHeight + 1)}

MassifOptionLists == UNION {[1..k -> MassifOptionChoices] : k \in 0..2}

\* handleMassifIndexErr is applied to an error and the suppression flag
HandleMassifIndexErrCall ==
    /\ mode = "massif"
    /\ pc = "start"
    /\ args.call = "handleMassifIndexErr"
    /\ ret' = handleMassifIndexErr(args.err, args.nonLeafNode)
    /\ pc' = "done"
    /\ UNCHANGED <<storeVars, mode, listVars, inclusionVars, consistencyVars,
                   functionVars, deadlineVars>>

\* the caller asks for the massif of an mmr index, with options
MassifWithOptionsCall ==
    /\ mode = "massif"
    /\ pc = "start"
    /\ args.call = "Massif"
    /\ \E massifIndex \in MassifIndexFromMMRIndexOrNotleaf(DefaultMassifHeight,
                                                            args.mmrIndex) :
          ret' = MassifWithOptions(massifIndex, DefaultMassifHeight, args.opts)
    /\ pc' = "done"
    /\ UNCHANGED <<storeVars, mode, listVars, inclusionVars, consistencyVars,
                   functionVars, deadlineVars>>

MassifInit ==
    /\ mode = "massif"
    /\ pc = "start"
    /\ ret = None
    /\ nLeaves \in 1..MaxLeaves
    /\ corrupt = NoCorrupt
    /\ \/ args \in [call : {"handleMassifIndexErr"},
                     err : {NoErr, ErrNotleaf, ErrWrappedNotleaf, ErrMock},
                     nonLeafNode : BOOLEAN]
       \/ args \in [call : {"Massif"},
                     mmrIndex : EntryIndices(nLeaves),
                     opts : MassifOptionLists]
    /\ verifyErr = None
    /\ ListIdle
    /\ InclusionIdle
    /\ ConsistencyIdle
    /\ DeadlineIdle

MassifNext == HandleMassifIndexErrCall \/ MassifWithOptionsCall

MassifSpec == MassifInit /\ [][MassifNext]_vars

\* ------------------------------------------------------------------------
\* Deadlines of a massif fetch (the context Massif makes for GetMassif, and
\* the context the caller passes to VerifyConsistency)
\* ------------------------------------------------------------------------

\* a context without a deadline (context.Background, context.WithCancel)
NoDeadline == 0

ErrContextCanceled == "context canceled"

ErrContextDeadlineExceeded == "context deadline exceeded"

\* ctx.Err() at a time: nil while the context is not done
ContextErr(c, now) ==
    IF c.cancelled THEN ErrContextCanceled
    ELSE IF c.deadline # NoDeadline /\ now >= c.deadline
         THEN ErrContextDeadlineExceeded
         ELSE NoErr

\* context.WithTimeout(context.Background(), timeout) made at a time
WithTimeoutOfBackground(now, timeout) ==
    [deadline |-> now + timeout, cancelled |-> FALSE]

\* the contexts a caller passes: none done when the call starts
CallerContexts ==
    [deadline : {NoDeadline, contextTimeout \div 3}, cancelled : {FALSE}]

\* VerifyConsistency going to storage for the last massif of log state B
\* without having looked at the peaks of the two log states
VerifyConsistencyFetchUnguarded ==
    /\ mode = "deadline"
    /\ pc = "start"
    /\ fetch' = [massifIndex |->
                    MassifIndexFromMMRIndex(DefaultMassifHeight, stateB.MMRSize - 1),
                 ctx |-> WithTimeoutOfBackground(clock, contextTimeout)]
    /\ pc' = "fetching"
    /\ ret' = ret
    /\ UNCHANGED <<storeVars, mode, listVars, inclusionVars, consistencyVars,
                   functionVars, ctx, clock>>

\* VerifyConsistency up to the point where it waits for GetMassif: the check
\* of the peaks, then Massif, which makes the context of the fetch
VerifyConsistencyFetch ==
    /\ mode = "deadline"
    /\ pc = "start"
    /\ IF Len(stateA.Peaks) = 0 \/ Len(stateB.Peaks) = 0
       THEN /\ ret' = [err |-> ErrPeaksNotSet, v |-> FALSE]
            /\ pc' = "done"
            /\ fetch' = fetch
       ELSE /\ fetch' = [massifIndex |->
                            MassifIndexFromMMRIndex(DefaultMassifHeight,
                                                    stateB.MMRSize - 1),
                         ctx |-> WithTimeoutOfBackground(clock, contextTimeout)]
            /\ pc' = "fetching"
            /\ ret' = ret
    /\ UNCHANGED <<storeVars, mode, listVars, inclusionVars, consistencyVars,
                   functionVars, ctx, clock>>

\* a second passes while the fetch is outstanding; the fetch does not outlive
\* the deadline of its context
Tick ==
    /\ mode = "deadline"
    /\ pc = "fetching"
    /\ ContextErr(fetch.ctx, clock) = NoErr
    /\ clock' = clock + 1
    /\ UNCHANGED <<storeVars, mode, pc, ret, listVars, inclusionVars,
                   consistencyVars, functionVars, ctx, fetch>>

\* the caller cancels the context it passed, while the fetch is outstanding
CallerCancel ==
    /\ mode = "deadline"
    /\ pc = "fetching"
    /\ ~ctx.cancelled
    /\ ctx' = [ctx EXCEPT !.cancelled = TRUE]
    /\ UNCHANGED <<storeVars, mode, pc, ret, listVars, inclusionVars,
                   consistencyVars, functionVars, clock, fetch>>

\* GetMassif ends with the error of its context once that context is done,
\* and VerifyConsistency returns it
GetMassifContextDone ==
    /\ mode = "deadline"
    /\ pc = "fetching"
    /\ ContextErr(fetch.ctx, clock) # NoErr
    /\ ret' = [err |-> ContextErr(fetch.ctx, clock), v |-> FALSE]
    /\ pc' = "done"
    /\ UNCHANGED <<storeVars, mode, listVars, inclusionVars, consistencyVars,
                   functionVars, deadlineVars>>

\* GetMassif answers, and VerifyConsistency runs to its end
GetMassifReturn ==
    /\ mode = "deadline"
    /\ pc = "fetching"
    /\ ContextErr(fetch.ctx, clock) = NoErr
    /\ \E mismatchErr \in MismatchErrs :
          ret' = VerifyConsistency(stateA, stateB, mismatchErr)
    /\ pc' = "done"
    /\ UNCHANGED <<storeVars, mode, listVars, inclusionVars, consistencyVars,
                   functionVars, deadlineVars>>

DeadlineInit ==
    /\ mode = "deadline"
    /\ pc = "start"
    /\ ret = None
    /\ nLeaves \in 1..MaxLeaves
    /\ corrupt = NoCorrupt
    /\ stateA \in {MMRState(size, set) : size \in LogSizes(nLeaves), set \in BOOLEAN}
    /\ stateB \in {MMRState(size, set) : size \in LogSizes(nLeaves), set \in BOOLEAN}
    /\ retSwapped = None
    /\ ctx \in CallerContexts
    /\ clock = 0
    /\ fetch = None
    /\ ListIdle
    /\ InclusionIdle
    /\ FunctionIdle

DeadlineNext ==
    \/ VerifyConsistencyFetch
    \/ Tick
    \/ CallerCancel
    \/ GetMassifContextDone
    \/ GetMassifReturn

DeadlineSpec == DeadlineInit /\ [][DeadlineNext]_vars

\* ------------------------------------------------------------------------
\* The signed state of the log (SignedLogState, and the seal of a massif
\* the operator stores)
\* ------------------------------------------------------------------------

ErrNoSignedRoot == "ErrNoSignedRoot"

ErrSignatureFailed == "ErrSignatureFailed"

\* the key pair of the operator, and one of somebody else
OperatorKey == "operator"

OtherKey == "other"

\* codec.MarshalCBOR of a log state: the encoded fields in order, each item
\* standing for the bytes of one field
MarshalCBOR(logState) ==
    <<logState.MMRSize, Len(logState.Peaks)>> \o logState.Peaks

\* the signature of a payload under a key: it fits that key and those bytes
\* and no others
Sign1(key, payload) == <<"signature", key, payload>>

\* VerifyWithPublicKey that looks at the key of the signature alone
VerifyWithPublicKeyOfKeyOnly(message, publicKey) ==
    IF message.signature[2] = publicKey THEN NoErr ELSE ErrSignatureFailed

\* CoseSign1Message.VerifyWithPublicKey
VerifyWithPublicKey(message, publicKey) ==
    IF message.signature = Sign1(publicKey, message.payload)
    THEN NoErr
    ELSE ErrSignatureFailed

\* the seal the operator stored when the log held sealedLeaves leaves: the
\* log state with its peaks is signed, and stored without the peaks
SignedRoot(sealedLeaves) ==
    LET mmrState == MMRState(MMRSizeOfLeaves(sealedLeaves), TRUE)
    IN  [signedState |-> [payload |-> <<>>,
                          signature |-> Sign1(OperatorKey, MarshalCBOR(mmrState))],
         logState |-> [mmrState EXCEPT !.Peaks = <<>>]]

\* SignedRootReader.GetLatestMassifSignedRoot: the seal of the massif, when
\* the operator stored one (sealedLeaves = 0: no seal at all)
GetLatestMassifSignedRoot(massifIndex, sealedLeaves) ==
    IF sealedLeaves > 0
       /\ (sealedLeaves - 1) \div MassifLeaves(DefaultMassifHeight) = massifIndex
    THEN Ok(SignedRoot(sealedLeaves))
    ELSE Fail(ErrNoSignedRoot)

\* mmr.PeakHashes as SignedLogState and GenerateMassifSeal call it: the
\* stored values of the peaks of the mmr of size mmrSize
PeakHashesOfSize(mc, mmrSize) == PeakHashes(mc, mmrSize - 1)

\* SignedLogState: the signed state of the massif, its payload made of the
\* stored log state and the peaks of the local massif
SignedLogState(massifIndex, sealedLeaves) ==
    LET root == GetLatestMassifSignedRoot(massifIndex, sealedLeaves)
        massif == GetMassif(massifIndex, DefaultMassifHeight)
        peaks == PeakHashesOfSize(massif.v, root.v.logState.MMRSize)
    IN  IF root.err # NoErr THEN Fail(root.err)
        ELSE IF massif.err # NoErr THEN Fail(massif.err)
        ELSE IF peaks.err # NoErr THEN Fail(peaks.err)
        ELSE Ok([root.v.signedState EXCEPT
                    !.payload = MarshalCBOR([root.v.logState EXCEPT
                                                !.Peaks = peaks.v])])

\* the ways to change the bytes of one item of a payload
AlteredItems(payload, p) ==
    IF p <= 2 THEN {FlipBit(payload[p], 0)}
    ELSE {<<"altered">>, <<"altered", "again">>} \ {payload[p]}

\* the caller asks for the signed state of a massif
SignedLogStateCall ==
    /\ mode = "seal"
    /\ pc = "start"
    /\ ret' = SignedLogState(args.massifIndex, args.sealedLeaves)
    /\ pc' = IF ret'.err = NoErr THEN "signed" ELSE "done"
    /\ UNCHANGED <<storeVars, mode, listVars, inclusionVars, consistencyVars,
                   functionVars, deadlineVars>>

\* one byte of the payload of the message is changed before it is verified
TamperPayload ==
    /\ mode = "seal"
    /\ pc = "signed"
    /\ tamper = None
    /\ \E p \in 1..Len(ret.v.payload) :
          \E item \in AlteredItems(ret.v.payload, p) :
             /\ ret' = [ret EXCEPT !.v.payload[p] = item]
             /\ tamper' = [field |-> "payload", pos |-> p]
    /\ UNCHANGED <<storeVars, mode, pc, listVars, entry, massifOption, proofRet,
                   consistencyVars, functionVars, deadlineVars>>

\* the signature of the message is verified with a public key
VerifyWithPublicKeyCall ==
    /\ mode = "seal"
    /\ pc = "signed"
    /\ verifyErr' = VerifyWithPublicKey(ret.v, args.key)
    /\ pc' = "done"
    /\ UNCHANGED <<storeVars, mode, ret, listVars, inclusionVars, consistencyVars,
                   args, deadlineVars>>

SealInit ==
    /\ mode = "seal"
    /\ pc = "start"
    /\ ret = None
    /\ nLeaves \in 1..MaxLeaves
    /\ corrupt \in {NoCorrupt} \cup 0..(MMRSizeOfLeaves(nLeaves) - 1)
    /\ args \in [massifIndex : 0..((MaxLeaves - 1) \div MassifLeaves(DefaultMassifHeight)),
                 sealedLeaves : 0..MaxLeaves,
                 key : {OperatorKey, OtherKey}]
    /\ verifyErr = None
    /\ ListIdle
    /\ InclusionIdle
    /\ ConsistencyIdle
    /\ DeadlineIdle

SealNext == SignedLogStateCall \/ TamperPayload \/ VerifyWithPublicKeyCall

SealSpec == SealInit /\ [][SealNext]_vars

\* ------------------------------------------------------------------------
\* The constructors of a list of entries from the JSON of an events list
\* (NewAssetsV2AppEntries, NewEventsV1AppEntries, ParseEventList)
\* ------------------------------------------------------------------------

ErrUnmarshal == "ErrUnmarshal"

\* the run time panic of a nil pointer dereference
PanicNilPointer == "panic: nil pointer dereference"

\* the events a JSON list may hold: one that does not unmarshal, one whose
\* merkle log object is empty, and ones committed at an mmr index
JSONEvents ==
    [kind : {"malformed", "emptyCommit"}, identity : {"a", "b"}, index : {0}]
    \cup [kind : {"commit"}, identity : {"a", "b"}, index : 0..(MaxEntries - 1)]

\* the lists of events of the JSON given to a constructor
JSONEventLists == UNION {[1..n -> JSONEvents] : n \in 0..MaxEntries}

\* NewAssetsV2AppEntry and the loop body of ParseEventList: merklelog_entry
\* is unmarshalled and its Commit kept, nil when the object has none
ParseMerklelogEntry(eventJson) ==
    IF eventJson.kind = "malformed" THEN Fail(ErrUnmarshal)
    ELSE Ok([identity |-> eventJson.identity,
             hasCommit |-> eventJson.kind = "commit",
             index |-> eventJson.index])

\* NewEventsV1AppEntry: merklelog_commit is unmarshalled into a commit of
\* its own, whose index is 0 when the object has none
ParseMerklelogCommit(eventJson) ==
    IF eventJson.kind = "malformed" THEN Fail(ErrUnmarshal)
    ELSE Ok([identity |-> eventJson.identity,
             hasCommit |-> TRUE,
             index |-> eventJson.index])

\* the loop of the three constructors: every event is parsed in turn, and the
\* first error ends the constructor
RECURSIVE ParseEvents(_, _, _, _)
ParseEvents(eventList, events, k, forEventsV1) ==
    IF k > Len(eventList) THEN Ok(events)
    ELSE LET parsed == IF forEventsV1 THEN ParseMerklelogCommit(eventList[k])
                       ELSE ParseMerklelogEntry(eventList[k])
         IN  IF parsed.err # NoErr THEN Fail(parsed.err)
             ELSE ParseEvents(eventList, Append(events, parsed.v), k + 1, forEventsV1)

\* AppEntry.MMRIndex: 0 for an entry without a commit
AppEntryMMRIndex(ae) == IF ~ae.hasCommit THEN 0 ELSE ae.index

\* the orders of the elements of a sequence
PermutationsOf(s) ==
    {[k \in 1..Len(s) |-> s[f[k]]] :
        f \in {g \in [1..Len(s) -> 1..Len(s)] :
                 \A i, j \in 1..Len(s) : i # j => g[i] # g[j]}}

\* sort.Slice with the less function index(i) < index(j): any order of the
\* elements in which no element is less than the one before it (the sort is
\* not stable)
SortSlice(events) ==
    {s \in PermutationsOf(events) :
        \A k \in 2..Len(s) : ~(AppEntryMMRIndex(s[k]) < AppEntryMMRIndex(s[k - 1]))}

\* NewAssetsV2AppEntries: the set of its possible results
NewAssetsV2AppEntries(eventsJson) ==
    LET events == ParseEvents(eventsJson, <<>>, 1, FALSE)
    IN  IF events.err # NoErr THEN {Fail(events.err)}
        ELSE {Ok(s) : s \in SortSlice(events.v)}

\* NewEventsV1AppEntries: the set of its possible results
NewEventsV1AppEntries(eventsJson) ==
    LET events == ParseEvents(eventsJson, <<>>, 1, TRUE)
    IN  IF events.err # NoErr THEN {Fail(events.err)}
        ELSE {Ok(s) : s \in SortSlice(events.v)}

\* ParseEventList: the set of its possible results. Its less function reads
\* MerkleLog.Commit.Index of both elements, and sort.Slice calls it as soon
\* as there are two elements.
ParseEventList(eventsJson) ==
    LET events == ParseEvents(eventsJson, <<>>, 1, FALSE)
    IN  IF events.err # NoErr THEN {Fail(events.err)}
        ELSE IF Len(events.v) >= 2
                /\ \E k \in 1..Len(events.v) : ~events.v[k].hasCommit
             THEN {Fail(PanicNilPointer)}
             ELSE {Ok(s) : s \in SortSlice(events.v)}

NewAssetsV2AppEntriesCall ==
    /\ mode = "constructor"
    /\ pc = "start"
    /\ args.constructor = "NewAssetsV2AppEntries"
    /\ ret' \in NewAssetsV2AppEntries(args.events)
    /\ pc' = "done"
    /\ UNCHANGED <<storeVars, mode, listVars, inclusionVars, consistencyVars,
                   functionVars, deadlineVars>>

NewEventsV1AppEntriesCall ==
    /\ mode = "constructor"
    /\ pc = "start"
    /\ args.constructor = "NewEventsV1AppEntries"
    /\ ret' \in NewEventsV1AppEntries(args.events)
    /\ pc' = "done"
    /\ UNCHANGED <<storeVars, mode, listVars, inclusionVars, consistencyVars,
                   functionVars, deadlineVars>>

ParseEventListCall ==
    /\ mode = "constructor"
    /\ pc = "start"
    /\ args.constructor = "ParseEventList"
    /\ ret' \in ParseEventList(args.events)
    /\ pc' = "done"
    /\ UNCHANGED <<storeVars, mode, listVars, inclusionVars, consistencyVars,
                   functionVars, deadlineVars>>

ConstructorInit ==
    /\ mode = "constructor"
    /\ pc = "start"
    /\ ret = None
    /\ args \in [constructor : {"NewAssetsV2AppEntries", "NewEventsV1AppEntries",
                                "ParseEventList"},
                 events : JSONEventLists]
    /\ verifyErr = None
    /\ StoreIdle
    /\ ListIdle
    /\ InclusionIdle
    /\ ConsistencyIdle
    /\ DeadlineIdle

ConstructorNext ==
    \/ NewAssetsV2AppEntriesCall
    \/ NewEventsV1AppEntriesCall
    \/ ParseEventListCall

ConstructorSpec == ConstructorInit /\ [][ConstructorNext]_vars

\* ------------------------------------------------------------------------
\* Validation of an entry before it is verified (Validate,
\* DecodedEvent.Validate, VerifiableAssetsV2Event.Validate)
\* ------------------------------------------------------------------------

ErrNonEmptyEventIDRequired == "event identity field is required and must be non-empty"

ErrNonEmptyTenantIDRequired == "tenant identity field is required and must be non-empty"

ErrCommitEntryRequired == "merkle log commit field is required"

ErrIdTimestampRequired == "idtimestamp field is required and must be non-empty"

\* the entries handed to a validation: the identity and the tenant (log id)
\* may be empty, the merkle log entry may be nil or lack its commit, and the
\* id timestamp of a commit may be empty
ValidatedEntries ==
    [identity : {"", "event/a", "event/b"}, tenant : {"", "tenant/a"},
     merkleLog : {"nil", "noCommit"}, idtimestamp : {""}]
    \cup [identity : {"", "event/a", "event/b"}, tenant : {"", "tenant/a"},
          merkleLog : {"commit"}, idtimestamp : {"", "018fa97ef269039b00"}]

\* AppEntry.IDTimestamp: empty for an entry without a commit
ValidatedIDTimestamp(e) ==
    IF e.merkleLog # "commit" THEN "" ELSE e.idtimestamp

\* Validate(appEntry app.AppEntryGetter)
Validate(appEntry) ==
    IF appEntry.identity = "" THEN ErrNonEmptyEventIDRequired
    ELSE IF appEntry.tenant = "" THEN ErrNonEmptyTenantIDRequired
    ELSE IF ValidatedIDTimestamp(appEntry) = "" THEN ErrIdTimestampRequired
    ELSE NoErr

\* DecodedEvent.Validate
DecodedEventValidate(e) ==
    IF e.identity = "" THEN ErrNonEmptyEventIDRequired
    ELSE IF e.tenant = "" THEN ErrNonEmptyTenantIDRequired
    ELSE IF e.merkleLog = "nil" \/ e.merkleLog = "noCommit" THEN ErrCommitEntryRequired
    ELSE IF e.idtimestamp = "" THEN ErrIdTimestampRequired
    ELSE NoErr

\* VerifiableAssetsV2Event.Validate
VerifiableAssetsV2EventValidate(e) ==
    IF e.identity = "" THEN ErrNonEmptyEventIDRequired
    ELSE IF e.tenant = "" THEN ErrNonEmptyTenantIDRequired
    ELSE IF e.merkleLog # "commit" THEN ErrCommitEntryRequired
    ELSE IF e.idtimestamp = "" THEN ErrIdTimestampRequired
    ELSE NoErr

ValidateCall ==
    /\ mode = "validate"
    /\ pc = "start"
    /\ args.validate = "Validate"
    /\ ret' = Validate(args.entry)
    /\ pc' = "done"
    /\ UNCHANGED <<storeVars, mode, listVars, inclusionVars, consistencyVars,
                   functionVars, deadlineVars>>

DecodedEventValidateCall ==
    /\ mode = "validate"
    /\ pc = "start"
    /\ args.validate = "DecodedEvent.Validate"
    /\ ret' = DecodedEventValidate(args.entry)
    /\ pc' = "done"
    /\ UNCHANGED <<storeVars, mode, listVars, inclusionVars, consistencyVars,
                   functionVars, deadlineVars>>

VerifiableAssetsV2EventValidateCall ==
    /\ mode = "validate"
    /\ pc = "start"
    /\ args.validate = "VerifiableAssetsV2Event.Validate"
    /\ ret' = VerifiableAssetsV2EventValidate(args.entry)
    /\ pc' = "done"
    /\ UNCHANGED <<storeVars, mode, listVars, inclusionVars, consistencyVars,
                   functionVars, deadlineVars>>

ValidateInit ==
    /\ mode = "validate"
    /\ pc = "start"
    /\ ret = None
    /\ args \in [validate : {"Validate", "DecodedEvent.Validate",
                             "VerifiableAssetsV2Event.Validate"},
                 entry : ValidatedEntries]
    /\ verifyErr = None
    /\ StoreIdle
    /\ ListIdle
    /\ InclusionIdle
    /\ ConsistencyIdle
    /\ DeadlineIdle

ValidateNext ==
    \/ ValidateCall
    \/ DecodedEventValidateCall
    \/ VerifiableAssetsV2EventValidateCall

ValidateSpec == ValidateInit /\ [][ValidateNext]_vars

\* ------------------------------------------------------------------------
\* The massif of an app entry, from the options of the caller in the order
\* given (WithMassifContext, WithMassifReader, WithAzblobReader, and the two
\* versions of AppEntry.Massif that read them)
\* ------------------------------------------------------------------------

\* the options as the caller writes them: each sets one field
OptionWithMassifContext(mc) ==
    [field |-> "massifContext", massifContext |-> mc]

OptionWithMassifReader ==
    [field |-> "massifGetter", massifContext |-> ZeroMassifContext]

OptionWithAzblobReader ==
    [field |-> "azblobReader", massifContext |-> ZeroMassifContext]

\* ParseMassifGetterOptions over a list: the defaults, then every option in
\* the order given
RECURSIVE ApplyMassifGetterOptions(_, _, _)
ApplyMassifGetterOptions(massifOptions, options, k) ==
    IF k > Len(options) THEN massifOptions
    ELSE ApplyMassifGetterOptions(
            IF options[k].field = "massifContext"
            THEN [massifOptions EXCEPT !.hasMassifContext = TRUE,
                                       !.massifContext = options[k].massifContext]
            ELSE IF options[k].field = "massifGetter"
            THEN [massifOptions EXCEPT !.massifGetter = TRUE,
                                       !.MassifHeight = DefaultMassifHeight]
            ELSE [massifOptions EXCEPT !.azblobReader = TRUE,
                                       !.MassifHeight = DefaultMassifHeight],
            options, k + 1)

ParseMassifGetterOptionList(options) ==
    ApplyMassifGetterOptions(
        [hasMassifContext |-> FALSE, massifContext |-> ZeroMassifContext,
         massifGetter |-> FALSE, azblobReader |-> FALSE,
         MassifHeight |-> DefaultMassifHeight],
        options, 1)

\* Massif through one source of massifs: what it returns, and the request
\* made to storage with the source that made it
MassifThrough(via, mmrIndex, massifHeight) ==
    LET massif == Massif(mmrIndex, massifHeight)
    IN  [err |-> massif.err, v |-> massif.v,
         fetched |-> <<[massifIndex |-> massif.fetched[1], via |-> via]>>]

\* AppEntry.Massif of the entry that keeps its commit (appentry.go): the
\* context, else the massif reader, else a reader made of the azblob reader
AppEntryMassifOfReaders(ae, massifOptions) ==
    IF massifOptions.hasMassifContext
    THEN [err |-> NoErr, v |-> massifOptions.massifContext, fetched |-> <<>>]
    ELSE IF massifOptions.massifGetter
    THEN MassifThrough("massifReader", EntryMMRIndex(ae), massifOptions.MassifHeight)
    ELSE IF ~massifOptions.azblobReader
    THEN [err |-> ErrNoMassifSource, v |-> <<>>, fetched |-> <<>>]
    ELSE MassifThrough("azblobReader", EntryMMRIndex(ae), massifOptions.MassifHeight)

\* AppEntry.Massif of the trie backed entry: the context, else the massif
\* getter; the azblob reader is not read
AppEntryMassifOfGetter(ae, massifOptions) ==
    IF massifOptions.hasMassifContext
    THEN [err |-> NoErr, v |-> massifOptions.massifContext, fetched |-> <<>>]
    ELSE IF ~massifOptions.massifGetter
    THEN [err |-> ErrNoMassifSource, v |-> <<>>, fetched |-> <<>>]
    ELSE MassifThrough("massifReader", EntryMMRIndex(ae), massifOptions.MassifHeight)

\* the option lists a caller may give
MassifGetterOptionLists(n) ==
    UNION {[1..k -> {OptionWithMassifReader, OptionWithAzblobReader}
                    \cup {OptionWithMassifContext(GetMassif(m, DefaultMassifHeight).v) :
                            m \in StoredMassifs(n)}] : k \in 0..2}

\* the caller asks for the massif of the entry that keeps its commit
AppEntryMassifOfReadersCall ==
    /\ mode = "getter"
    /\ pc = "start"
    /\ args = "appentry"
    /\ ret' = AppEntryMassifOfReaders(entry, ParseMassifGetterOptionList(massifOption))
    /\ pc' = "done"
    /\ UNCHANGED <<storeVars, mode, listVars, inclusionVars, consistencyVars,
                   functionVars, deadlineVars>>

\* the caller asks for the massif of the trie backed entry
AppEntryMassifOfGetterCall ==
    /\ mode = "getter"
    /\ pc = "start"
    /\ args = "trie"
    /\ ret' = AppEntryMassifOfGetter(entry, ParseMassifGetterOptionList(massifOption))
    /\ pc' = "done"
    /\ UNCHANGED <<storeVars, mode, listVars, inclusionVars, consistencyVars,
                   functionVars, deadlineVars>>

GetterInit ==
    /\ mode = "getter"
    /\ pc = "start"
    /\ ret = None
    /\ nLeaves \in 1..MaxLeaves
    /\ corrupt = NoCorrupt
    /\ \E l \in 0..(nLeaves - 1) : entry = CommittedEntry(l)
    /\ tamper = None
    /\ massifOption \in MassifGetterOptionLists(nLeaves)
    /\ proofRet = None
    /\ args \in {"appentry", "trie"}
    /\ verifyErr = None
    /\ ListIdle
    /\ ConsistencyIdle
    /\ DeadlineIdle

GetterNext == AppEntryMassifOfReadersCall \/ AppEntryMassifOfGetterCall

GetterSpec == GetterInit /\ [][GetterNext]_vars

\* ------------------------------------------------------------------------
\* UpdateMassifContext applied on its own to the context of a caller
\* ------------------------------------------------------------------------

ErrNilMassifContext == "nil massif context"

\* UpdateMassifContext from its first line: the pointer to the context may
\* be nil, and then nothing else is done
UpdateMassifContextPointer(isNil, mc, mmrIndex, massifHeight) ==
    IF isNil THEN [err |-> ErrNilMassifContext, v |-> mc, fetched |-> <<>>]
    ELSE UpdateMassifContext(mc, mmrIndex, massifHeight)

\* the contexts a caller may hold: the zero context, or a stored massif
HeldMassifContexts(n) ==
    {ZeroMassifContext}
    \cup {GetMassif(m, DefaultMassifHeight).v : m \in StoredMassifs(n)}

\* the caller asks for its context to be moved to the massif of an mmr index
UpdateMassifContextCall ==
    /\ mode = "update"
    /\ pc = "start"
    /\ \E step \in {UpdateMassifContextPointer(args.isNil, massifContext,
                                               args.mmrIndex, DefaultMassifHeight)} :
          /\ ret' = step.err
          /\ massifContext' = step.v
          /\ fetches' = fetches \o step.fetched
    /\ pc' = "done"
    /\ UNCHANGED <<storeVars, mode, appEntries, leafIndex, appEntryIndex,
                   omittedMMRIndices, visited, inclusionVars, consistencyVars,
                   functionVars, deadlineVars>>

UpdateInit ==
    /\ mode = "update"
    /\ pc = "start"
    /\ ret = None
    /\ nLeaves \in 1..MaxLeaves
    /\ corrupt = NoCorrupt
    /\ massifContext \in HeldMassifContexts(nLeaves)
    /\ args \in [isNil : BOOLEAN,
                 massifContext : {massifContext},
                 mmrIndex : 0..(MMRSizeOfLeaves(MaxLeaves) - 1)]
    /\ verifyErr = None
    /\ appEntries = <<>>
    /\ leafIndex = 0
    /\ appEntryIndex = 0
    /\ omittedMMRIndices = <<>>
    /\ fetches = <<>>
    /\ visited = <<>>
    /\ InclusionIdle
    /\ ConsistencyIdle
    /\ DeadlineIdle

UpdateNext == UpdateMassifContextCall

UpdateSpec == UpdateInit /\ [][UpdateNext]_vars

\* ------------------------------------------------------------------------
\* One reconciler step applied on its own (VerifyAppEntryInList)
\* ------------------------------------------------------------------------

\* VerifyAppEntryInList when mmr.VerifyInclusion cannot read the accumulator of
\* the massif: PeakHashes fails with peaksErr and VerifyInclusion returns
\* (false, peaksErr); with no such failure it is VerifyAppEntryInList
VerifyAppEntryInListPeaksErr(leaf, appEntry, mc, peaksErr) ==
    LET step == VerifyAppEntryInList(leaf, appEntry, mc)
    IN  IF peaksErr = NoErr THEN step
        ELSE IF step.type = Included \/ step.err = ErrInclusionProofVerify
        THEN VerifyAppEntryInListVerified(
                [err |-> NoErr, v |-> step.mc, fetched |-> step.fetched],
                [err |-> peaksErr, v |-> FALSE])
        ELSE step

\* the app entry a caller presents whose id timestamp lost its epoch byte
ShortIDTimestamp(ae) == [ae EXCEPT !.idTimestamp = Tail(@)]

\* the step is applied to the leaf and the app entry given
VerifyAppEntryInListCall ==
    /\ mode = "step"
    /\ pc = "start"
    /\ \E step \in {VerifyAppEntryInListPeaksErr(args.leaf, args.appEntry,
                                                 massifContext, args.peaksErr)} :
          /\ ret' = step
          /\ massifContext' = step.mc
          /\ fetches' = fetches \o step.fetched
    /\ pc' = "done"
    /\ UNCHANGED <<storeVars, mode, appEntries, leafIndex, appEntryIndex,
                   omittedMMRIndices, visited, inclusionVars, consistencyVars,
                   functionVars, deadlineVars>>

StepInit ==
    /\ mode = "step"
    /\ pc = "start"
    /\ ret = None
    /\ nLeaves \in 1..MaxLeaves
    /\ corrupt \in {NoCorrupt} \cup 0..(MMRSizeOfLeaves(nLeaves) - 1)
    /\ massifContext \in HeldMassifContexts(nLeaves)
    /\ \E ae \in EntrySet(nLeaves) \cup {MakeEntry(MMRIndex(nLeaves), FALSE)} :
          args \in [leaf : 0..MaxLeaves,
                    appEntry : {ae, ShortIDTimestamp(ae)},
                    massifContext : {massifContext},
                    peaksErr : {NoErr, ErrGetIndex}]
    /\ verifyErr = None
    /\ appEntries = <<>>
    /\ leafIndex = 0
    /\ appEntryIndex = 0
    /\ omittedMMRIndices = <<>>
    /\ fetches = <<>>
    /\ visited = <<>>
    /\ InclusionIdle
    /\ ConsistencyIdle
    /\ DeadlineIdle

StepNext == VerifyAppEntryInListCall

StepSpec == StepInit /\ [][StepNext]_vars

\* ------------------------------------------------------------------------
\* The list reconciler over the logs of two tenants (VerifyList with and
\* without the WithTenantId option)
\* ------------------------------------------------------------------------

\* verifyOptions.tenantId when the WithTenantId option was not given
NoTenantID == <<>>

\* the massif height VerifyList passes on. In this specification a massif has
\* to hold a leaf that is neither its first nor its last, so it is one more
\* than the height of the other specifications
TenantMassifHeight == DefaultMassifHeight + 1

\* Massif for a tenant: the massif of that tenant's log that contains mmrIndex.
\* The logs of the tenants hold the same number of leaves.
MassifOfTenant(mmrIndex, tenantID, massifHeight) ==
    LET massif == Massif(mmrIndex, massifHeight)
    IN  IF massif.err # NoErr THEN massif
        ELSE [err |-> NoErr,
              v |-> [loaded |-> TRUE, massifIndex |-> massif.v.massifIndex,
                     massifHeight |-> massifHeight, tenant |-> tenantID],
              fetched |-> massif.fetched]

\* UpdateMassifContext with its tenant: the containment test looks at the mmr
\* index alone, the tenant is used for the fetch
UpdateMassifContextOfTenant(mc, mmrIndex, tenantID, massifHeight) ==
    IF mmrIndex >= FirstIndex(mc) /\ mmrIndex < LastLeafMMRIndex(mc)
    THEN [err |-> NoErr, v |-> mc, fetched |-> <<>>]
    ELSE LET nextContext == MassifOfTenant(mmrIndex, tenantID, massifHeight)
         IN  IF nextContext.err # NoErr
             THEN [err |-> nextContext.err, v |-> mc, fetched |-> nextContext.fetched]
             ELSE nextContext

\* VerifyAppEntryInList with the tenant VerifyList resolved for the app entry
VerifyAppEntryInListOfTenant(leaf, appEntry, mc, tenantID) ==
    LET leafMMRIndex == MMRIndex(leaf)
        appEntryMMRIndex == EntryMMRIndex(appEntry)
    IN  IF IndexHeight(appEntryMMRIndex) # 0
        THEN Step(Excluded, ErrIntermediateNode, mc, <<>>)
        ELSE IF appEntryMMRIndex < leafMMRIndex
             THEN Step(Excluded, ErrDuplicateAppEntryMMRIndex, mc, <<>>)
        ELSE IF appEntryMMRIndex > leafMMRIndex THEN Step(Omitted, NoErr, mc, <<>>)
        ELSE VerifyAppEntryInListMassif(leafMMRIndex, appEntry,
                UpdateMassifContextOfTenant(mc, leafMMRIndex, tenantID,
                                            TenantMassifHeight))

\* the tenant VerifyList resolves for an app entry: the WithTenantId option
\* when given, otherwise the entry's own log tenant
ResolvedTenant(tenantId, appEntry) ==
    IF tenantId # NoTenantID THEN Ok(tenantId) ELSE LogTenant(appEntry)

\* VerifyList up to its loop
VerifyListOfTenantsStart ==
    /\ mode = "tenants"
    /\ pc = "start"
    /\ IF Len(appEntries) = 0
       THEN /\ pc' = "done"
            /\ ret' = Return(<<>>, ErrIndexOutOfRange)
            /\ UNCHANGED leafIndex
       ELSE /\ pc' = "loop"
            /\ leafIndex' = LeafRange(appEntries).low
            /\ UNCHANGED ret
    /\ appEntryIndex' = 0
    /\ omittedMMRIndices' = <<>>
    /\ massifContext' = ZeroMassifContext
    /\ UNCHANGED <<storeVars, mode, appEntries, fetches, visited,
                   inclusionVars, consistencyVars,
                   functionVars, deadlineVars>>

\* one iteration of the loop of VerifyList: the tenant is resolved, then the
\* app entry is tried at the leaf
VerifyListOfTenantsStep ==
    /\ mode = "tenants"
    /\ pc = "loop"
    /\ leafIndex <= LeafRange(appEntries).high
    /\ IF appEntryIndex >= Len(appEntries)
       THEN /\ pc' = "done"
            /\ ret' = Return(<<>>, ErrNotEnoughAppEntriesInList)
            /\ UNCHANGED <<leafIndex, appEntryIndex, omittedMMRIndices,
                           massifContext, fetches, visited>>
       ELSE \E tenantId \in {ResolvedTenant(args.tenantId,
                                            appEntries[appEntryIndex + 1])} :
            IF tenantId.err # NoErr
            THEN /\ pc' = "done"
                 /\ ret' = Return(<<>>, tenantId.err)
                 /\ UNCHANGED <<leafIndex, appEntryIndex, omittedMMRIndices,
                                massifContext, fetches, visited>>
            ELSE
            \E step \in {VerifyAppEntryInListOfTenant(leafIndex,
                            appEntries[appEntryIndex + 1], massifContext,
                            tenantId.v)} :
                /\ visited' = Append(visited, <<leafIndex, appEntryIndex>>)
                /\ massifContext' = step.mc
                /\ fetches' = fetches \o step.fetched
                /\ IF step.err # NoErr
                   THEN /\ pc' = "done"
                        /\ ret' = Return(<<>>, step.err)
                        /\ UNCHANGED <<leafIndex, appEntryIndex, omittedMMRIndices>>
                   ELSE IF step.type = Omitted
                   THEN /\ omittedMMRIndices' =
                                Append(omittedMMRIndices, MMRIndex(leafIndex))
                        /\ leafIndex' = leafIndex + 1
                        /\ UNCHANGED <<pc, ret, appEntryIndex>>
                   ELSE /\ appEntryIndex' = appEntryIndex + 1
                        /\ leafIndex' = leafIndex + 1
                        /\ UNCHANGED <<pc, ret, omittedMMRIndices>>
    /\ UNCHANGED <<storeVars, mode, appEntries, inclusionVars, consistencyVars,
                   functionVars, deadlineVars>>

\* the leaf range is exhausted: VerifyList returns the omitted mmr indices
VerifyListOfTenantsReturn ==
    /\ mode = "tenants"
    /\ pc = "loop"
    /\ leafIndex > LeafRange(appEntries).high
    /\ pc' = "done"
    /\ ret' = Return(omittedMMRIndices, NoErr)
    /\ UNCHANGED <<storeVars, mode, listVars, inclusionVars, consistencyVars,
                   functionVars, deadlineVars>>

\* the app entries a caller presents: the entries the tenants committed
TenantEntrySet(n) ==
    {[CommittedEntryOf(logID, LeafIndex(i)) EXCEPT !.mmrIndex = i] :
        logID \in {LogID, OtherLogID}, i \in EntryIndices(n)}

TenantInit ==
    /\ mode = "tenants"
    /\ pc = "start"
    /\ ret = NotReturned
    /\ nLeaves \in 1..MaxLeaves
    /\ corrupt = NoCorrupt
    /\ appEntries \in ListsOver(TenantEntrySet(nLeaves))
    /\ args \in [tenantId : {NoTenantID} \cup
                            {LogTenant(CommittedEntryOf(logID, 0)).v :
                                logID \in {LogID, OtherLogID}}]
    /\ verifyErr = None
    /\ leafIndex = 0
    /\ appEntryIndex = 0
    /\ omittedMMRIndices = <<>>
    /\ massifContext = ZeroMassifContext
    /\ fetches = <<>>
    /\ visited = <<>>
    /\ InclusionIdle
    /\ ConsistencyIdle
    /\ DeadlineIdle

TenantNext ==
    \/ VerifyListOfTenantsStart
    \/ VerifyListOfTenantsStep
    \/ VerifyListOfTenantsReturn

TenantSpec == TenantInit /\ [][TenantNext]_vars

\* ------------------------------------------------------------------------
\* Inclusion of the trie backed app entry (AppEntry.TrieEntry, ExtraBytes,
\* IDTimestamp, MMRSalt, MMREntry, Proof, VerifyProof, VerifyInclusion, whose
\* salt is read from the log's trie rather than kept on the entry)
\* ------------------------------------------------------------------------

\* MassifContext.GetTrieEntry: the trie entry of a leaf the massif holds, with
\* the extra bytes and the id timestamp the log committed for it
GetTrieEntry(mc, mmrIndex) ==
    IF mc.loaded /\ mmrIndex >= FirstIndex(mc) /\ mmrIndex < RangeCount(mc)
       /\ IndexHeight(mmrIndex) = 0
    THEN LET committed == CommittedEntry(LeafIndex(mmrIndex))
         IN  Ok([extraBytes  |-> CopyExtraBytes(committed.extraBytes),
                 idTimestamp |-> BigEndianPutUint64(
                                    SplitIDTimestampHex(committed.idTimestamp).v.id)])
    ELSE Fail(ErrGetIndex)

\* AppEntry.Massif, from the options as the caller lists them
TrieMassif(ae, options) ==
    AppEntryMassifOfGetter(ae, ParseMassifGetterOptionList(options))

\* AppEntry.TrieEntry, once the massif is resolved
TrieEntryIn(ae, resolved) ==
    IF resolved.err # NoErr THEN Fail(resolved.err)
    ELSE GetTrieEntry(resolved.v, EntryMMRIndex(ae))

\* AppEntry.TrieEntry
TrieEntry(ae, options) == TrieEntryIn(ae, TrieMassif(ae, options))

\* massifs.GetExtraBytes of the trie entry read
ExtraBytesOfTrieEntry(trieEntry) ==
    IF trieEntry.err # NoErr THEN Fail(trieEntry.err)
    ELSE Ok(trieEntry.v.extraBytes)

\* AppEntry.ExtraBytes
TrieExtraBytes(ae, options) == ExtraBytesOfTrieEntry(TrieEntry(ae, options))

\* massifs.GetIdtimestamp of the trie entry read
IDTimestampOfTrieEntry(trieEntry) ==
    IF trieEntry.err # NoErr THEN Fail(trieEntry.err)
    ELSE Ok(trieEntry.v.idTimestamp)

\* AppEntry.IDTimestamp
TrieIDTimestamp(ae, options) == IDTimestampOfTrieEntry(TrieEntry(ae, options))

\* AppEntry.MMRSalt, once the extra bytes and the id timestamp are read:
\* extra bytes | id timestamp
MMRSaltOfTrie(extraBytes, idTimestamp) ==
    IF extraBytes.err # NoErr THEN Fail(extraBytes.err)
    ELSE IF idTimestamp.err # NoErr THEN Fail(idTimestamp.err)
    ELSE Ok([k \in 1..MMRSaltSize |->
                IF k <= ExtraBytesSize THEN extraBytes.v[k]
                ELSE idTimestamp.v[k - ExtraBytesSize]])

\* AppEntry.MMRSalt: both parts are read from the trie
TrieMMRSalt(ae, options) ==
    MMRSaltOfTrie(TrieExtraBytes(ae, options), TrieIDTimestamp(ae, options))

\* LogVersion0Hasher.HashEvent: the hash of a log version 0 event
HashEventV0(serializedBytes, idTimestamp) ==
    <<"simplehashv3", serializedBytes, idTimestamp>>

\* AppEntry.MMREntry, once its reads are made: the log version is the first
\* extra byte; version 0 hashes the event with its id timestamp, version 1 is
\* H( domain | mmr salt | serialized bytes )
MMREntryOfTrie(ae, resolved, extraBytes, idTimestamp, mmrSalt) ==
    IF resolved.err # NoErr THEN Fail(resolved.err)
    ELSE IF extraBytes.err # NoErr THEN Fail(extraBytes.err)
    ELSE IF extraBytes.v[1] = 0
    THEN IF idTimestamp.err # NoErr THEN Fail(idTimestamp.err)
         ELSE Ok(HashEventV0(ae.serializedBytes, idTimestamp.v))
    ELSE IF mmrSalt.err # NoErr THEN Fail(mmrSalt.err)
    ELSE Ok(HashLeaf(<<ae.domain>> \o mmrSalt.v \o ae.serializedBytes))

\* AppEntry.MMREntry, once the massif is resolved: the extra bytes and the id
\* timestamp are read with that massif as the option, the salt of a version 1
\* entry is asked for with no option
TrieMMREntryIn(ae, resolved) ==
    MMREntryOfTrie(ae, resolved,
                   TrieExtraBytes(ae, <<OptionWithMassifContext(resolved.v)>>),
                   TrieIDTimestamp(ae, <<OptionWithMassifContext(resolved.v)>>),
                   TrieMMRSalt(ae, <<>>))

\* AppEntry.MMREntry
TrieMMREntry(ae, options) == TrieMMREntryIn(ae, TrieMassif(ae, options))

\* AppEntry.Proof, once the massif is resolved
TrieProofIn(ae, massif) ==
    IF massif.err # NoErr THEN Fail(massif.err)
    ELSE InclusionProof(massif.v, RangeCount(massif.v) - 1, EntryMMRIndex(ae))

\* AppEntry.Proof
TrieProof(ae, options) == TrieProofIn(ae, TrieMassif(ae, options))

\* AppEntry.VerifyProof, once the massif is resolved and the leaf hash derived
TrieVerifyProofIn(ae, proof, massif, mmrEntry) ==
    IF massif.err # NoErr THEN [err |-> massif.err, v |-> FALSE]
    ELSE IF mmrEntry.err # NoErr THEN [err |-> mmrEntry.err, v |-> FALSE]
    ELSE VerifyInclusionMMR(massif.v, RangeCount(massif.v), mmrEntry.v,
                            EntryMMRIndex(ae), proof)

\* AppEntry.VerifyProof: the massif is the one the options give; the leaf
\* hash is asked for with no option
TrieVerifyProof(ae, proof, options) ==
    TrieVerifyProofIn(ae, proof, TrieMassif(ae, options), TrieMMREntry(ae, <<>>))

\* AppEntry.VerifyInclusion, once the proof is made and verified
TrieVerifyInclusionIn(massif, proof, verified) ==
    IF massif.err # NoErr
    THEN [err |-> massif.err, v |-> FALSE, fetched |-> massif.fetched]
    ELSE IF proof.err # NoErr
    THEN [err |-> proof.err, v |-> FALSE, fetched |-> massif.fetched]
    ELSE [err |-> verified.err, v |-> verified.v, fetched |-> massif.fetched]

\* AppEntry.VerifyInclusion, once the massif is resolved: the proof is made
\* and verified with that massif as the only option
TrieVerifyInclusionOf(ae, massif, proof) ==
    TrieVerifyInclusionIn(massif, proof,
        TrieVerifyProof(ae, proof.v, <<OptionWithMassifContext(massif.v)>>))

\* AppEntry.VerifyInclusion: the massif is resolved from the options. Returns
\* [err, v (the verdict), fetched (the requests to storage)].
TrieVerifyInclusionWith(ae, massif) ==
    TrieVerifyInclusionOf(ae, massif,
        TrieProof(ae, <<OptionWithMassifContext(massif.v)>>))

TrieVerifyInclusion(ae, options) ==
    TrieVerifyInclusionWith(ae, TrieMassif(ae, options))

\* the caller asks for the inclusion of the trie backed entry to be verified
TrieVerifyInclusionCall ==
    /\ mode = "trie"
    /\ pc = "start"
    /\ args = "VerifyInclusion"
    /\ \E verified \in {TrieVerifyInclusion(entry, massifOption)} :
          /\ ret' = [err |-> verified.err, v |-> verified.v]
          /\ fetches' = fetches \o verified.fetched
    /\ pc' = "done"
    /\ UNCHANGED <<storeVars, mode, appEntries, leafIndex, appEntryIndex,
                   omittedMMRIndices, massifContext, visited, inclusionVars,
                   consistencyVars, functionVars, deadlineVars>>

\* the caller asks for the leaf hash of the trie backed entry
TrieMMREntryCall ==
    /\ mode = "trie"
    /\ pc = "start"
    /\ args = "MMREntry"
    /\ ret' = TrieMMREntry(entry, massifOption)
    /\ pc' = "done"
    /\ UNCHANGED <<storeVars, mode, listVars, inclusionVars, consistencyVars,
                   functionVars, deadlineVars>>

\* the caller asks for the inclusion proof of the trie backed entry
TrieProofCall ==
    /\ mode = "trie"
    /\ pc = "start"
    /\ args = "Proof"
    /\ ret' = TrieProof(entry, massifOption)
    /\ pc' = "done"
    /\ UNCHANGED <<storeVars, mode, listVars, inclusionVars, consistencyVars,
                   functionVars, deadlineVars>>

TrieInit ==
    /\ mode = "trie"
    /\ pc = "start"
    /\ ret = None
    /\ nLeaves \in 1..MaxLeaves
    /\ corrupt = NoCorrupt
    /\ \E l \in 0..(nLeaves - 1) : entry = CommittedEntry(l)
    /\ tamper = None
    /\ massifOption \in MassifGetterOptionLists(nLeaves)
    /\ proofRet = None
    /\ args \in {"VerifyInclusion", "MMREntry", "Proof"}
    /\ verifyErr = None
    /\ ListIdle
    /\ ConsistencyIdle
    /\ DeadlineIdle

TrieNext == TrieVerifyInclusionCall \/ TrieMMREntryCall \/ TrieProofCall

TrieSpec == TrieInit /\ [][TrieNext]_vars

\* ------------------------------------------------------------------------
\* Properties of the list reconciler
\* ------------------------------------------------------------------------

\* the elements of a finite set of numbers as an ascending sequence
RECURSIVE Ascending(_)
Ascending(S) ==
    IF S = {} THEN <<>>
    ELSE LET least == CHOOSE x \in S : \A y \in S : x <= y
         IN  <<least>> \o Ascending(S \ {least})

\* VerifyList has returned
ListDone == mode = "list" /\ pc = "done"

\* the list is not empty, every entry sits on a leaf of the stored log and the
\* mmr indices strictly ascend (so the leaves are distinct)
OnDistinctLeaves(list) ==
    /\ Len(list) > 0
    /\ \A k \in 1..Len(list) :
          /\ IndexHeight(EntryMMRIndex(list[k])) = 0
          /\ EntryMMRIndex(list[k]) < LogSize
          /\ k > 1 => EntryMMRIndex(list[k - 1]) < EntryMMRIndex(list[k])

\* the leaf hash derived from every entry is the value stored at its index
MatchStoredLeaves(list) ==
    \A k \in 1..Len(list) : MMREntry(list[k]).v = StoredValue(EntryMMRIndex(list[k]))

\* the leaves from the leaf of the first entry to the leaf of the last entry
LeavesBetween(list) ==
    LeafIndex(EntryMMRIndex(list[1]))..LeafIndex(EntryMMRIndex(list[Len(list)]))

\* the leaves some entry of the list refers to
LeavesReferred(list) == {LeafIndex(EntryMMRIndex(list[k])) : k \in 1..Len(list)}

\* the mmr indices, ascending, of the leaves between the first and the last
\* entry's leaf that no entry refers to
OmittedBetween(list) ==
    Ascending({MMRIndex(l) : l \in LeavesBetween(list) \ LeavesReferred(list)})

\* C3 (as stated): for a list sorted ascending by mmr index whose entries sit
\* on distinct leaves of an unaltered log and each match the value stored at
\* their leaf, VerifyList succeeds and returns exactly the mmr indices of the
\* leaves between the first entry's leaf and the last entry's leaf that no
\* entry refers to, in ascending order.
C3_OmittedExactly ==
    (ListDone /\ corrupt = NoCorrupt /\ OnDistinctLeaves(appEntries)
              /\ MatchStoredLeaves(appEntries))
        => ret = Return(OmittedBetween(appEntries), NoErr)

\* the current step of VerifyList examines an entry whose mmr index is that of
\* the current leaf while the hash derived from it differs from the stored leaf
StepOnAlteredLeaf ==
    /\ mode = "list" /\ pc = "loop"
    /\ leafIndex <= LeafRange(appEntries).high
    /\ appEntryIndex < Len(appEntries)
    /\ EntryMMRIndex(appEntries[appEntryIndex + 1]) = MMRIndex(leafIndex)
    /\ MMRIndex(leafIndex) < LogSize
    /\ MMREntry(appEntries[appEntryIndex + 1]).v # StoredValue(MMRIndex(leafIndex))

\* C4: when the entry's mmr index equals the mmr index of the current leaf but
\* the leaf hash derived from the entry differs from the stored node value,
\* VerifyList aborts with ErrAppEntryNotOnLeaf: the step returns that error
\* with no omitted list and the entry is not counted as included.
C4_NotOnLeaf ==
    [][StepOnAlteredLeaf =>
          /\ pc' = "done"
          /\ ret' = Return(<<>>, ErrAppEntryNotOnLeaf)
          /\ appEntryIndex' = appEntryIndex]_vars

\* C4 witness: VerifyList returned ErrAppEntryNotOnLeaf for an entry whose
\* derived hash differs from the value stored at its leaf
C4_Witness ==
    /\ ListDone
    /\ ret.err = ErrAppEntryNotOnLeaf
    /\ MMREntry(appEntries[appEntryIndex + 1]).v
           # StoredValue(EntryMMRIndex(appEntries[appEntryIndex + 1]))

\* the list is sorted ascending by mmr index, as VerifyList expects it
SortedByMMRIndex(list) ==
    \A k \in 2..Len(list) : EntryMMRIndex(list[k - 1]) <= EntryMMRIndex(list[k])

\* C5 (as stated): a sorted list that contains an entry whose mmr index is an
\* interior node (height above 0), whatever its payload and its place in the
\* list, is never reported as success.
C5_InteriorNeverSuccess ==
    (ListDone /\ SortedByMMRIndex(appEntries)
              /\ \E k \in 1..Len(appEntries) :
                    IndexHeight(EntryMMRIndex(appEntries[k])) > 0)
        => ret.err # NoErr

\* a sequence of numbers strictly increases
StrictlyIncreasing(seq) == \A k \in 1..(Len(seq) - 1) : seq[k] < seq[k + 1]

\* C8 (as stated): the omitted list VerifyList returns on success strictly
\* increases and every element is the mmr index of a leaf whose leaf index lies
\* between the leaf index of the first and of the last entry of the list.
C8_OmittedWithinRange ==
    (ListDone /\ ret.err = NoErr /\ OnDistinctLeaves(appEntries))
        => /\ StrictlyIncreasing(ret.omitted)
           /\ \A k \in 1..Len(ret.omitted) :
                 \E l \in LeavesBetween(appEntries) : ret.omitted[k] = MMRIndex(l)

\* the current step of VerifyList classifies its entry as fatal
StepFatal ==
    /\ mode = "list" /\ pc = "loop"
    /\ leafIndex <= LeafRange(appEntries).high
    /\ appEntryIndex < Len(appEntries)
    /\ VerifyAppEntryInList(leafIndex, appEntries[appEntryIndex + 1],
                            massifContext).err # NoErr

\* C9: VerifyList stops at the first fatal classification: the step whose
\* entry is Excluded (or whose verification errs) returns that error with a nil
\* omitted list, and from then on no leaf is visited, no entry is examined and
\* no massif is fetched.
C9_StopsAtFirstFatal ==
    [][/\ StepFatal =>
            /\ pc' = "done"
            /\ ret' = Return(<<>>, VerifyAppEntryInList(leafIndex,
                                        appEntries[appEntryIndex + 1],
                                        massifContext).err)
            /\ visited' = Append(visited, <<leafIndex, appEntryIndex>>)
            /\ Len(fetches') <= Len(fetches) + 1
       /\ ListDone => UNCHANGED <<visited, fetches, leafIndex, appEntryIndex, ret>>]_vars

\* C9 witness: VerifyList returned an error at an entry that is not the last
\* of the list, after having stepped over earlier leaves
C9_Witness ==
    /\ ListDone
    /\ ret.err \in {ErrIntermediateNode, ErrDuplicateAppEntryMMRIndex,
                    ErrAppEntryNotOnLeaf, ErrInclusionProofVerify}
    /\ ret.omitted = <<>>
    /\ Len(visited) >= 2
    /\ appEntryIndex + 1 < Len(appEntries)

\* C10 (as stated): when the leaf range is exhausted while entries of the
\* (sorted) list are still unprocessed VerifyList does not succeed: it returns
\* success only when every entry of the list has been matched to its leaf and
\* classified Included.
C10_SuccessOnlyWhenAllIncluded ==
    (ListDone /\ SortedByMMRIndex(appEntries) /\ ret.err = NoErr)
        => appEntryIndex = Len(appEntries)

\* two neighbours of the list sit on the same leaf: both carry the same mmr
\* index, and it is the index of a leaf
RepeatsLeaf(list) ==
    \E k \in 2..Len(list) :
        /\ EntryMMRIndex(list[k - 1]) = EntryMMRIndex(list[k])
        /\ IndexHeight(EntryMMRIndex(list[k])) = 0

\* C11 (as stated): a list sorted ascending by mmr index in which two entries
\* carry the same leaf mmr index is rejected: VerifyList never reports such a
\* list as success.
C11_DuplicateNeverSuccess ==
    (ListDone /\ SortedByMMRIndex(appEntries) /\ RepeatsLeaf(appEntries))
        => ret.err # NoErr

\* the massif indices requested from storage never go back
FetchesNonDecreasing ==
    \A k \in 2..Len(fetches) : fetches[k - 1] <= fetches[k]

\* no massif is requested from storage twice
FetchesDistinct ==
    \A j, k \in 1..Len(fetches) : j # k => fetches[j] # fetches[k]

EndsOnLeaves(list) ==
    /\ Len(list) > 0
    /\ IndexHeight(EntryMMRIndex(list[1])) = 0
    /\ IndexHeight(EntryMMRIndex(list[Len(list)])) = 0

\* VerifyList has taken the leaf range of the list and no step yet
LeafRangeTaken == mode = "list" /\ pc = "loop" /\ visited = <<>>

\* C18: for every leaf index l, LeafCount(MMRIndex(l) + 1) - 1 = l; hence
\* LeafRange over a sorted list whose first and last entries sit on leaves
\* returns the leaf indices of the first and the last entry, lower bound
\* first.
C18_LeafRangeRoundTrip ==
    (LeafRangeTaken /\ SortedByMMRIndex(appEntries) /\ EndsOnLeaves(appEntries))
        => /\ \A l \in 0..(nLeaves - 1) : LeafCount(MMRIndex(l) + 1) - 1 = l
           /\ leafIndex = LeafIndex(EntryMMRIndex(appEntries[1]))
           /\ LeafRange(appEntries).high
                 = LeafIndex(EntryMMRIndex(appEntries[Len(appEntries)]))
           /\ leafIndex <= LeafRange(appEntries).high

\* the loop of VerifyList takes one step: a leaf and an app entry are visited
ReconcilerStepTaken ==
    /\ mode = "list"
    /\ pc = "loop"
    /\ visited' = Append(visited, <<leafIndex, appEntryIndex>>)

\* the mmr index of the app entry the next step takes
TakenMMRIndex == EntryMMRIndex(appEntries[appEntryIndex + 1])

\* the step touched neither storage nor the massif context
NoFetchInStep == fetches' = fetches /\ massifContext' = massifContext

C26_NotEnoughEntriesUnreachable ==
    mode = "list" =>
        /\ ret.err # ErrNotEnoughAppEntriesInList
        /\ (pc = "loop" /\ leafIndex <= LeafRange(appEntries).high) =>
              appEntryIndex < Len(appEntries)

\* every entry of a list of several entries was taken, the last one in the
\* iteration of the last leaf of the range, leaves having been omitted on the way
C26_Witness ==
    /\ mode = "list"
    /\ pc = "loop"
    /\ Len(appEntries) >= 2
    /\ appEntryIndex = Len(appEntries)
    /\ leafIndex = LeafRange(appEntries).high + 1
    /\ omittedMMRIndices # <<>>

\* C30: VerifyList given an empty list ends normally, with an empty omitted
\* list or with an error it returns: it does not fault on an access out of the
\* range of the list
C30_EmptyListEndsNormally ==
    (mode = "list" /\ pc = "done" /\ Len(appEntries) = 0) =>
        ret.err # ErrIndexOutOfRange

\* ------------------------------------------------------------------------
\* Properties of the inclusion of one app entry
\* ------------------------------------------------------------------------

\* the leaf hash derived from the caller's entry is the value stored at its leaf
DerivedHashIsStored ==
    /\ mode = "inclusion"
    /\ MMREntry(entry).err = NoErr
    /\ MMREntry(entry).v = StoredValue(EntryMMRIndex(entry))

\* the massif view the operations work on: the massif read from storage for the
\* entry, or the context the caller supplied
MassifView == AppEntryMassif(entry, massifOption)

\* the view is a massif whose mmr size reaches beyond the entry's leaf
ViewReachesLeaf ==
    /\ MassifView.err = NoErr
    /\ RangeCount(MassifView.v) >= EntryMMRIndex(entry) + 1

\* the view is the massif that stores the entry's leaf
ViewStoresLeaf ==
    /\ MassifView.err = NoErr
    /\ MassifView.v.massifIndex =
           MassifIndexFromMMRIndex(DefaultMassifHeight, EntryMMRIndex(entry))

\* the entry verifies: Proof succeeds, VerifyProof of that proof and
\* VerifyInclusion return true with no error
RoundTrips ==
    /\ pc = "proved" => proofRet.err = NoErr
    /\ pc = "done" => ret = [err |-> NoErr, v |-> TRUE]

\* C1 (as stated): for every leaf and every massif view whose mmr size
\* (RangeCount) is at least mmr_index(leaf) + 1, an entry whose derived leaf
\* hash equals the stored leaf value verifies.
C1_RoundTripAnyView == (DerivedHashIsStored /\ ViewReachesLeaf) => RoundTrips

\* C1 (amended): for every leaf and every view of the massif that stores the
\* leaf, an entry whose derived leaf hash equals the stored leaf value
\* verifies: VerifyProof(Proof(entry)) and VerifyInclusion(entry) return true
\* with no error.
C1_RoundTrip == (DerivedHashIsStored /\ ViewStoresLeaf) => RoundTrips

\* C1 witness: an entry of the second massif, whose proof crosses into the
\* first massif's peak, has been verified through the caller's massif context
C1_Witness ==
    /\ DerivedHashIsStored /\ ViewStoresLeaf
    /\ pc = "done"
    /\ ret = [err |-> NoErr, v |-> TRUE]
    /\ massifOption.massifContext # None
    /\ MassifView.v.massifIndex > 0

\* the committed entry the caller's entry was copied from
CommittedOriginal == CommittedEntry(LeafIndex(EntryMMRIndex(entry)))

\* the caller's entry differs from the committed entry in one bit
SingleBitChanged == mode = "inclusion" /\ tamper # None

\* the changed bit is one MMRSalt and MMREntry write to the hasher: any bit of
\* the serialized bytes, of the first ExtraBytesSize extra bytes, or of the
\* IDTimestapSizeBytes id bytes that follow the epoch byte of the id timestamp
ChangedBitIsHashed ==
    \/ tamper.field = "serializedBytes"
    \/ tamper.field = "extraBytes" /\ tamper.pos <= ExtraBytesSize
    \/ tamper.field = "idTimestamp" /\ tamper.pos > 1

\* the change is evident: the derived leaf hash differs from that of the
\* committed entry and verification of the changed entry does not return true
TamperEvident ==
    /\ MMREntry(entry) # MMREntry(CommittedOriginal)
    /\ pc = "done" => ret.v = FALSE

\* C2 (as stated): changing any single bit of an entry's serialized bytes,
\* extra bytes or id timestamp changes the leaf hash derived by MMREntry, and
\* inclusion verification of the changed entry against the unchanged log never
\* returns true.
C2_AnyBitTamperEvident == SingleBitChanged => TamperEvident

\* C2 (amended): changing any single bit of the serialized bytes, of the first
\* 24 extra bytes or of the 8 id bytes of the id timestamp changes the leaf
\* hash derived by MMREntry, and inclusion verification of the changed entry
\* against the unchanged log never returns true.
C2_TamperEvident == (SingleBitChanged /\ ChangedBitIsHashed) => TamperEvident

\* C2 witness: verification of an entry with one bit of its id timestamp
\* changed has returned false with the verification error
C2_Witness ==
    /\ SingleBitChanged /\ ChangedBitIsHashed
    /\ tamper.field = "idTimestamp"
    /\ pc = "done"
    /\ ret = [err |-> ErrVerifyInclusionFailed, v |-> FALSE]

\* ------------------------------------------------------------------------
\* Properties of the consistency of two log states
\* ------------------------------------------------------------------------

\* two states of the same unaltered log, each carrying the peak hashes of the
\* log at its size
StatesOfSameLog ==
    /\ mode = "consistency"
    /\ corrupt = NoCorrupt
    /\ Len(stateA.Peaks) > 0
    /\ Len(stateB.Peaks) > 0

\* the last nodes of the two states are stored in the same massif
StatesInSameMassif ==
    MassifIndexFromMMRIndex(DefaultMassifHeight, stateA.MMRSize - 1)
        = MassifIndexFromMMRIndex(DefaultMassifHeight, stateB.MMRSize - 1)

\* VerifyConsistency(A, B) returned true with no error
ForwardVerified == ret = [err |-> NoErr, v |-> TRUE]

\* C6 (as stated): for two states A and B of the same log where B extends A
\* by at least one leaf, VerifyConsistency(A, B) returns true and
\* VerifyConsistency(B, A) returns false.
C6_OneDirectionalAnyStates ==
    (StatesOfSameLog /\ pc = "done" /\ stateA.MMRSize < stateB.MMRSize)
        => (ForwardVerified /\ retSwapped.v = FALSE)

\* C6 (amended): for two states A and B of the same log and of the same
\* massif where B extends A by at least one leaf, VerifyConsistency(A, B)
\* returns true and VerifyConsistency(B, A) returns false.
C6_OneDirectional ==
    (StatesOfSameLog /\ StatesInSameMassif /\ pc = "done"
                     /\ stateA.MMRSize < stateB.MMRSize)
        => (ForwardVerified /\ retSwapped.v = FALSE)

\* C6 witness: both directions have been verified for a state B that extends
\* a state A of the same massif; forward true, reverse false
C6_Witness ==
    /\ StatesOfSameLog /\ StatesInSameMassif
    /\ pc = "done"
    /\ stateA.MMRSize < stateB.MMRSize
    /\ ForwardVerified
    /\ retSwapped.v = FALSE

\* C7 (as stated): for any two states of the same append only log with
\* size_a <= size_b, each carrying the peak hashes of the log at its size,
\* consistency verification from the state of size_a to the state of size_b
\* returns true.
C7_ConsistentAnyStates ==
    (StatesOfSameLog /\ pc = "checked" /\ stateA.MMRSize <= stateB.MMRSize)
        => ForwardVerified

\* C7 (amended): for any two states of the same append only log and of the
\* same massif with size_a <= size_b (equal sizes included), each carrying the
\* peak hashes of the log at its size, consistency verification from the state
\* of size_a to the state of size_b returns true.
C7_Consistent ==
    (StatesOfSameLog /\ StatesInSameMassif /\ pc = "checked"
                     /\ stateA.MMRSize <= stateB.MMRSize)
        => ForwardVerified

\* C7 witness: a state has been verified consistent with itself, in a massif
\* other than the first
C7_Witness ==
    /\ StatesOfSameLog /\ StatesInSameMassif
    /\ pc = "checked"
    /\ stateA.MMRSize = stateB.MMRSize
    /\ stateA.MMRSize > MMRSizeOfLeaves(MassifLeaves(DefaultMassifHeight))
    /\ ForwardVerified

\* ------------------------------------------------------------------------
\* Properties of the mmr salt
\* ------------------------------------------------------------------------

\* the id timestamp of the entry is well formed: the epoch byte followed by
\* the id as IDTimestapSizeBytes bytes
IDTimestampParses == Len(entry.idTimestamp) = IDTimestapSizeBytes + 1

\* MMRSalt has returned for the entry
SaltDone == mode = "salt" /\ pc = "done"

ExtraBytesDone == mode = "extraBytes" /\ pc = "done"

\* the origin tenant is a uuid, in one of the forms a uuid is written in, with
\* or without one leading "tenant/"
OriginTenantIsUUID ==
    /\ args.prefixes <= 1
    /\ args.form \in {"canonical", "urn", "braced", "compact"}
    /\ Len(args.digits) = 32
    /\ \A k \in 1..32 : args.digits[k] < 16

\* C13: for every origin tenant that parses as a uuid (with or without the
\* "tenant/" prefix) NewEventsV1ExtraBytes returns exactly 24 bytes: the app
\* domain byte 1, the 16 bytes of the uuid, 7 zero bytes; for every other
\* origin tenant it returns an error and no bytes.
C13_ExtraBytesLayout ==
    ExtraBytesDone =>
        IF OriginTenantIsUUID
        THEN /\ ret.err = NoErr
             /\ DOMAIN ret.v = 1..24
             /\ ret.v[1] = 1
             /\ \A k \in 1..16 :
                   ret.v[1 + k] = 16 * args.digits[2 * k - 1] + args.digits[2 * k]
             /\ \A k \in 18..24 : ret.v[k] = 0
        ELSE /\ ret.err # NoErr
             /\ ret.v = <<>>

\* C13 witness: the extra bytes of an origin tenant written with the
\* "tenant/" prefix have been returned, the last byte of the uuid not zero
C13_Witness ==
    /\ ExtraBytesDone
    /\ OriginTenantIsUUID
    /\ args.prefixes = 1
    /\ ret.err = NoErr
    /\ ret.v[17] # 0

\* ------------------------------------------------------------------------
\* Properties of the massif lookup with options
\* ------------------------------------------------------------------------

\* the error is ErrNotleaf, bare or wrapped
IsNotleaf(err) == err \in {"ErrNotleaf", "massif index: ErrNotleaf"}

\* the option list holds no WithNonLeafNode(true)
WithoutSuppression(opts) ==
    \A k \in 1..Len(opts) :
        ~(opts[k].field = "nonLeafNode" /\ opts[k].nonLeafNode)

\* C14: handleMassifIndexErr(err, suppress) returns nil exactly when err is
\* nil, or suppress is true and err is ErrNotleaf; in every other case it
\* returns err unchanged. Without WithNonLeafNode(true) among the options the
\* ErrNotleaf of an interior mmr index is returned by Massif and no massif is
\* fetched.
C14_OnlyNotleafSuppressed ==
    /\ (mode = "massif" /\ pc = "done" /\ args.call = "handleMassifIndexErr")
          => ret = IF args.err = NoErr \/ (args.nonLeafNode /\ IsNotleaf(args.err))
                   THEN NoErr ELSE args.err
    /\ (mode = "massif" /\ pc = "done" /\ args.call = "Massif"
            /\ WithoutSuppression(args.opts) /\ IndexHeight(args.mmrIndex) > 0)
          => (ret.err = "ErrNotleaf" /\ ret.fetched = <<>> /\ ret.v = None)

\* C14 witness: with suppression on, an error other than ErrNotleaf has been
\* handed back unchanged
C14_Witness ==
    /\ mode = "massif" /\ pc = "done"
    /\ args.call = "handleMassifIndexErr"
    /\ args.nonLeafNode
    /\ args.err = ErrMock
    /\ ret = ErrMock

\* ------------------------------------------------------------------------
\* Properties of the deadlines of a massif fetch
\* ------------------------------------------------------------------------

\* the context the caller passed is done: cancelled, or past its deadline
CallerContextDone == ContextErr(ctx, clock) # NoErr

\* C15: deadlines propagate from the caller: when the context passed to
\* VerifyConsistency is cancelled or passes its deadline while the massif
\* fetch is outstanding, the verification returns a cancellation error.
C15_CallerContextAborts ==
    (mode = "deadline" /\ pc = "done" /\ CallerContextDone)
        => ret.err \in {ErrContextCanceled, ErrContextDeadlineExceeded}

\* a log state that lacks its recomputed commitment: its peaks are nil or empty
LacksCommitment(logState) == Len(logState.Peaks) = 0

\* C25: when either log state lacks its recomputed commitment VerifyConsistency
\* returns false with the peaks-not-set error and asks storage for no massif;
\* a massif is fetched, and the states compared, only when both carry one
C25_NoCommitmentNoFetch ==
    (mode = "deadline" /\ pc # "start") =>
        IF LacksCommitment(stateA) \/ LacksCommitment(stateB)
        THEN /\ pc = "done"
             /\ ret = [err |-> ErrPeaksNotSet, v |-> FALSE]
             /\ fetch = None
        ELSE fetch # None

\* VerifyConsistency returned on a log state A without peaks, log state B
\* having its own
C25_Witness ==
    /\ mode = "deadline"
    /\ pc = "done"
    /\ LacksCommitment(stateA)
    /\ ~LacksCommitment(stateB)
    /\ ret.err = ErrPeaksNotSet

\* ------------------------------------------------------------------------
\* Properties of the signed state of the log
\* ------------------------------------------------------------------------

\* the signature of a message from SignedLogState has been verified with the
\* public key of the operator
SealVerified ==
    /\ mode = "seal"
    /\ pc = "done"
    /\ ret.err = NoErr
    /\ args.key = OperatorKey

\* the payload the operator signed
SignedPayload ==
    MarshalCBOR(MMRState(MMRSizeOfLeaves(args.sealedLeaves), TRUE))

\* a peak of the attested mmr has another value in the local massif
LocalPeakDiffers ==
    \E k \in 1..Len(Peaks(MMRSizeOfLeaves(args.sealedLeaves) - 1)) :
        Peaks(MMRSizeOfLeaves(args.sealedLeaves) - 1)[k] = corrupt

ConstructorDone == mode = "constructor" /\ pc = "done"

\* every event of the JSON list parses
AllEventsParse ==
    \A k \in 1..Len(args.events) : args.events[k].kind # "malformed"

\* the number of events of the JSON list with an identity and an mmr index
CountInJSON(identity, index) ==
    Cardinality({k \in 1..Len(args.events) :
                    /\ args.events[k].identity = identity
                    /\ args.events[k].index = index})

\* the number of entries returned with an identity and an mmr index
CountReturned(identity, index) ==
    Cardinality({k \in 1..Len(ret.v) :
                    /\ ret.v[k].identity = identity
                    /\ AppEntryMMRIndex(ret.v[k]) = index})

ValidateDone == mode = "validate" /\ pc = "done"

\* the error of the first missing field of the entry, in the order identity,
\* tenant, commit, id timestamp; nil when none is missing
FirstMissingField ==
    IF args.entry.identity = "" THEN ErrNonEmptyEventIDRequired
    ELSE IF args.entry.tenant = "" THEN ErrNonEmptyTenantIDRequired
    ELSE IF args.entry.merkleLog # "commit" THEN ErrCommitEntryRequired
    ELSE IF args.entry.idtimestamp = "" THEN ErrIdTimestampRequired
    ELSE NoErr

\* C20: Validate returns nil only when the entry has a non-empty identity, a
\* non-empty tenant (log id), a merkle log commit and a non-empty id
\* timestamp; otherwise it returns the error of the first missing field in
\* the order identity, tenant, commit, id timestamp.
C20_FirstMissingFieldReported == ValidateDone => ret = FirstMissingField

\* ------------------------------------------------------------------------
\* Properties of the massif of an app entry
\* ------------------------------------------------------------------------

GetterDone == mode = "getter" /\ pc = "done"

\* the caller gave an option that sets the field
OptionGiven(field) ==
    \E k \in 1..Len(massifOption) : massifOption[k].field = field

\* the last massif context the caller gave
LastMassifContextGiven ==
    massifOption[CHOOSE k \in 1..Len(massifOption) :
                    /\ massifOption[k].field = "massifContext"
                    /\ \A j \in (k + 1)..Len(massifOption) :
                          massifOption[j].field # "massifContext"].massifContext

\* the one request to storage for the massif of the entry, through a source
FetchedThrough(via) ==
    ret.fetched = <<[massifIndex |-> MassifIndexFromMMRIndex(DefaultMassifHeight,
                                                              EntryMMRIndex(entry)),
                     via |-> via]>>

\* C21: AppEntry.Massif honours its options in priority order: a massif
\* context given is returned as it is with no fetch, even when a reader is
\* given too; otherwise the massif reader is used; otherwise the azblob
\* reader; with none of them it returns an error and fetches nothing.
C21_OptionPriority ==
    GetterDone =>
        IF OptionGiven("massifContext")
        THEN ret.err = NoErr /\ ret.v = LastMassifContextGiven /\ ret.fetched = <<>>
        ELSE IF OptionGiven("massifGetter") THEN FetchedThrough("massifReader")
        ELSE IF OptionGiven("azblobReader") THEN FetchedThrough("azblobReader")
        ELSE ret.err = ErrNoMassifSource /\ ret.fetched = <<>>

\* ------------------------------------------------------------------------
\* Properties of UpdateMassifContext applied on its own
\* ------------------------------------------------------------------------

UpdateDone == mode = "update" /\ pc = "done"

\* the mmr index asked for lies in the window of the massif the caller held:
\* from its first index up to and including its last leaf
InsideWindow ==
    /\ args.massifContext.loaded
    /\ args.mmrIndex >= FirstIndex(args.massifContext)
    /\ args.mmrIndex <= LastLeafMMRIndex(args.massifContext)

\* C22: UpdateMassifContext calls the massif reader if and only if the mmr
\* index lies outside the window of the massif held; inside the window it
\* returns nil without a fetch and leaves the context as it was, outside it
\* the context becomes the massif MassifIndexFromMMRIndex gives for the index.
C22_FetchIffOutsideWindow ==
    (UpdateDone /\ ~args.isNil) =>
        /\ fetches # <<>> <=> ~InsideWindow
        /\ InsideWindow => ret = NoErr /\ massifContext = args.massifContext
        /\ (~InsideWindow /\ ret = NoErr) =>
              /\ massifContext.loaded
              /\ massifContext.massifIndex
                    = MassifIndexFromMMRIndex(DefaultMassifHeight, args.mmrIndex)

\* C28: UpdateMassifContext changes the context of the caller only on a
\* successful fetch: an error of the reader is returned with the context
\* left as it was, and a nil context gives ErrNilMassifContext without a
\* call of the reader.
C28_ContextKeptOnError ==
    UpdateDone =>
        /\ ret # NoErr => massifContext = args.massifContext
        /\ args.isNil => ret = ErrNilMassifContext /\ fetches = <<>>
        /\ (~args.isNil /\ fetches # <<>> /\ GetMassif(fetches[1], DefaultMassifHeight).err # NoErr)
              => ret = GetMassif(fetches[1], DefaultMassifHeight).err

\* the reader failed for a caller that held a massif, which it still holds
C28_Witness ==
    /\ UpdateDone
    /\ ~args.isNil
    /\ fetches # <<>>
    /\ ret = ErrBlobNotFound
    /\ args.massifContext.loaded
    /\ massifContext = args.massifContext

\* ------------------------------------------------------------------------
\* Properties of one reconciler step
\* ------------------------------------------------------------------------

StepDone == mode = "step" /\ pc = "done"

\* the step gets past the index tests: the entry is on the leaf it is tried at
StepOnLeaf ==
    /\ IndexHeight(EntryMMRIndex(args.appEntry)) = 0
    /\ EntryMMRIndex(args.appEntry) = MMRIndex(args.leaf)

\* what the operations of the step return, in the order the step calls them
StepUpdated ==
    UpdateMassifContext(args.massifContext, MMRIndex(args.leaf), DefaultMassifHeight)

StepLeafMMREntry == Get(StepUpdated.v, MMRIndex(args.leaf))

StepMMREntry == MMREntry(args.appEntry)

StepInclusionProof ==
    InclusionProof(StepUpdated.v, RangeCount(StepUpdated.v) - 1, MMRIndex(args.leaf))

\* the step gets as far as running the inclusion verification
StepReachesVerify ==
    /\ StepOnLeaf
    /\ StepUpdated.err = NoErr
    /\ StepLeafMMREntry.err = NoErr
    /\ StepMMREntry.err = NoErr
    /\ StepLeafMMREntry.v = StepMMREntry.v
    /\ StepInclusionProof.err = NoErr

\* the step returned Unknown together with the error err
StepUnknownWith(err) == ret.type = Unknown /\ ret.err = err

\* C24: no error is swallowed by the step: an error of the massif fetch, of the
\* read of the leaf, of the derivation of the entry's hash or of the inclusion
\* verification, other than the verification having failed, is returned as it
\* is with the classification Unknown
C24_NoErrorSwallowed ==
    (StepDone /\ StepOnLeaf) =>
        /\ StepUpdated.err # NoErr => StepUnknownWith(StepUpdated.err)
        /\ (StepUpdated.err = NoErr /\ StepLeafMMREntry.err # NoErr) =>
              StepUnknownWith(StepLeafMMREntry.err)
        /\ (StepUpdated.err = NoErr /\ StepLeafMMREntry.err = NoErr
              /\ StepMMREntry.err # NoErr) =>
              StepUnknownWith(StepMMREntry.err)
        /\ (StepReachesVerify /\ args.peaksErr # NoErr) =>
              StepUnknownWith(args.peaksErr)

\* ------------------------------------------------------------------------
\* Properties of VerifyList over the logs of two tenants
\* ------------------------------------------------------------------------

\* the tenant resolved for the app entry the next step takes
TakenTenant == ResolvedTenant(args.tenantId, appEntries[appEntryIndex + 1]).v

\* the next step reads the leaf from the massif context: the entry's index is
\* that of the leaf, and the update of the massif context returned no error
TenantStepReadsLeaf ==
    /\ mode = "tenants"
    /\ pc = "loop"
    /\ visited' = Append(visited, <<leafIndex, appEntryIndex>>)
    /\ EntryMMRIndex(appEntries[appEntryIndex + 1]) = MMRIndex(leafIndex)
    /\ UpdateMassifContextOfTenant(massifContext, MMRIndex(leafIndex), TakenTenant,
                                   TenantMassifHeight).err = NoErr

TrieVerifyInclusionDone == mode = "trie" /\ pc = "done" /\ args = "VerifyInclusion"

\* the caller's options give a massif context or a massif getter
TrieSourceGiven ==
    \E k \in 1..Len(massifOption) :
        massifOption[k].field \in {"massifContext", "massifGetter"}

\* C27: VerifyInclusion of the trie backed entry, given a massif context or a
\* working massif getter, does not fail for want of a massif source: the massif
\* resolved from the caller's options serves the trie lookup, the leaf hash,
\* the proof and its verification
C27_MassifSourceCarried ==
    (TrieVerifyInclusionDone /\ TrieSourceGiven) => ret.err # ErrNoMassifSource

====
